---- MODULE Spec2Model ----
(***************************************************************************)
(* Model of AcTrBatchedLine (packages/three-renderer/src/batch):           *)
(* a batch of line geometries packed into one shared vertex buffer and     *)
(* one optional shared index buffer, with a region table, a reuse pool of  *)
(* deleted handles, buffer growth and compaction.                          *)
(*                                                                         *)
(* Positions are one-dimensional integer coordinates, one buffer cell per  *)
(* vertex.  Buffers and the region table are 1-based sequences; the        *)
(* program's 0-based offset i is element i + 1.                            *)
(*                                                                         *)
(* The application layer around the batches is modelled beside it: the     *)
(* AcTrScene with its table of layouts, the bulk conversion of entities in *)
(* AcTrView2d, and the registry and the document opening of                *)
(* AcApDocManager.                                                         *)
(***************************************************************************)
EXTENDS Integers, Sequences, FiniteSets, TLC

\* ---------------------------------------------------------------- bounds
\* maxVertexCount handed to the constructor (the index capacity defaults to
\* twice that)
InitVertexCount == 2
\* vertices of one supplied geometry: 1..MaxGeomVertices
MaxGeomVertices == 2
\* indices of one supplied indexed geometry: 1..MaxGeomIndices
MaxGeomIndices == 2
\* coordinates of supplied vertices: 1..MaxCoord
MaxCoord == 2
\* slots of the region table
MaxSlots == 2
\* whole cells of the vertex buffer a growth may reach
MaxVertexCells == 6
\* whole cells of the index buffer a growth may reach
MaxIndexCells == 9
\* public calls made on the batch
MaxCalls == 2
\* slots and public calls in the longer call sequences over polylines
MaxSlotsDeep == 3
MaxCallsDeep == 5
MaxCallsUpdates == 4
\* public calls in the life cycle of a batch with resets
MaxCallsLifecycle == 5
\* largest explicit reservation passed to addGeometry
MaxReserved == 2

\* ---------------------------------------------------------------- values
\* Uint16Array element range (index buffer when maxVertexCount <= 65535)
IndexModulus == 65536
\* a read outside a typed array gives undefined, which becomes NaN
NaN == -7

VARIABLES
  maxVertexCount,        \* _maxVertexCount, a rational [n, d]
  maxIndexCount,         \* _maxIndexCount, a rational [n, d]
  geometryInfo,          \* _geometryInfo
  availableGeometryIds,  \* _availableGeometryIds
  nextIndexStart,        \* _nextIndexStart
  nextVertexStart,       \* _nextVertexStart
  geometryCount,         \* _geometryCount
  geometryInitialized,   \* _geometryInitialized
  attributes,            \* names of this.geometry.attributes
  indexed,               \* this.geometry.index !== null
  position,              \* this.geometry.attributes.position.array
  index,                 \* this.geometry.index.array
  drawRange,             \* this.geometry.drawRange
  supplied,              \* per slot: the geometry last written into it
  last,                  \* the last public call and its outcome
  calls,                 \* number of public calls made
  log,                   \* the calls made so far, when a log is kept
  scene,                 \* AcTrView2d._scene, the AcTrScene of the view
  numOfEntitiesToProcess,\* AcTrView2d._numOfEntitiesToProcess
  conversions,           \* batchConvert calls scheduled or suspended at an await
  opening,               \* the openUrl / openDocument call of the manager
  managers,              \* every AcApDocManager constructed so far
  instances,             \* AcApDocManager._instances
  instance,              \* AcApDocManager._instance (0 for undefined)
  did,                   \* the last call made on the application layer
  submissions,           \* per entry of conversions: who scheduled it, and
                         \* whether clear() has run since
  isDirty,               \* AcTrView2d._isDirty
  rafId,                 \* AcTrView2d._rafId (0 for null)
  frames                 \* animation-frame callbacks requested, not yet run
                         \* or cancelled

batchVars ==
  <<maxVertexCount, maxIndexCount, geometryInfo, availableGeometryIds,
    nextIndexStart, nextVertexStart, geometryCount, geometryInitialized,
    attributes, indexed, position, index, drawRange, supplied, last, calls,
    log>>

\* the animation loop of the view
loopVars == <<rafId, frames>>

appVars ==
  <<scene, numOfEntitiesToProcess, conversions, opening, managers, instances,
    instance, did, submissions, isDirty, loopVars>>

vars == <<batchVars, appVars>>

\* ------------------------------------------------------------- rationals
\* Capacities become fractional through the factor 1.5; they are kept exact
\* as n/d with d a power of two.
Rat(k) == [n |-> k, d |-> 1]

Floor(c) == c.n \div c.d

\* integer k > c
IntGt(k, c) == k * c.d > c.n

\* a > b
RatGt(a, b) == a.n * b.d > b.n * a.d

\* (c + k) * 2
GrowTwice(c, k) == [n |-> 2 * (c.n + k * c.d), d |-> c.d]

\* (c + k) * 1.5
GrowBy(c, k) ==
  LET num == 3 * (c.n + k * c.d)
      den == 2 * c.d
  IN  IF num % 2 = 0 THEN [n |-> num \div 2, d |-> den \div 2]
                     ELSE [n |-> num, d |-> den]

\* ------------------------------------------------------------------ boxes
\* THREE.Box3 in one dimension: <<min, max>>; null is <<>>.
NullBox == <<>>

\* Box3.makeEmpty: min = +Infinity, max = -Infinity, kept as any min > max
EmptyBox == <<1, 0>>

\* Box3.isEmpty
IsEmpty(box) == box[1] # NaN /\ box[2] < box[1]

Min(a, b) == IF a < b THEN a ELSE b

Max(a, b) == IF a > b THEN a ELSE b

\* Box3.expandByPoint (Math.min / Math.max answer NaN once NaN is met)
ExpandByPoint(box, p) ==
  IF p = NaN \/ box[1] = NaN THEN <<NaN, NaN>>
  ELSE IF IsEmpty(box) THEN <<p, p>>
  ELSE <<Min(box[1], p), Max(box[2], p)>>

RECURSIVE BoxOfSeq(_)
BoxOfSeq(s) ==
  IF s = <<>> THEN EmptyBox
  ELSE ExpandByPoint(BoxOfSeq(Tail(s)), Head(s))

\* BufferGeometry.computeBoundingBox: the box of all position vertices
ComputeBoundingBox(g) == BoxOfSeq(g.position)

\* ---------------------------------------------------------------- inputs
\* attribute name -> itemSize schemas of supplied geometries, as sets of pairs
AttributeSets ==
  { {<<"position", 3>>},
    {<<"position", 3>>, <<"color", 3>>},
    {<<"position", 3>>, <<"color", 4>>} }

SeqsUpTo(S, lo, hi) == UNION {[1..k -> S] : k \in lo..hi}

\* THREE.BufferGeometry values with the given schemas, vertex data and
\* bounding-box states (null or computed), without and with an index
GeometriesOf(schemas, positions, maxIndices, boxed) ==
  UNION {
    { [attrs |-> a, position |-> p, hasIndex |-> FALSE, index |-> <<>>,
       boundingBox |-> IF b THEN BoxOfSeq(p) ELSE NullBox] :
        a \in schemas, b \in boxed }
    \cup
    { [attrs |-> a, position |-> p, hasIndex |-> TRUE, index |-> ix,
       boundingBox |-> IF b THEN BoxOfSeq(p) ELSE NullBox] :
        a \in schemas,
        ix \in SeqsUpTo(0..(Len(p) - 1), 1, maxIndices),
        b \in boxed }
    : p \in positions }

Positions == SeqsUpTo(1..MaxCoord, 1, MaxGeomVertices)

\* geometries handed to addGeometry: a new BufferGeometry has no bounding box
\* yet, and addGeometry computes it
NewGeometries == GeometriesOf(AttributeSets, Positions, MaxGeomIndices, {FALSE})

\* geometries handed to setGeometryAt: bounding box null or computed
Geometries == GeometriesOf(AttributeSets, Positions, MaxGeomIndices, BOOLEAN)

\* a polyline of k vertices with coordinates 1..k
Polyline(k) == [i \in 1..k |-> i]

\* the index list naming the k vertices of a polyline in order
InOrder(k) == [i \in 1..k |-> i - 1]

\* polylines of 1..MaxGeomVertices vertices, position-only, without an index
\* or with the in-order index, bounding box as given
PolylinesOf(boxed) ==
  { [attrs |-> {<<"position", 3>>}, position |-> Polyline(k),
     hasIndex |-> ix, index |-> IF ix THEN InOrder(k) ELSE <<>>,
     boundingBox |-> IF b THEN BoxOfSeq(Polyline(k)) ELSE NullBox] :
      k \in 1..MaxGeomVertices, ix \in BOOLEAN, b \in boxed }

\* position-only polylines with any index list within the bounds, bounding
\* box as given
IndexedPolylinesOf(boxed) ==
  UNION {
    { [attrs |-> {<<"position", 3>>}, position |-> Polyline(k),
       hasIndex |-> TRUE, index |-> ix,
       boundingBox |-> IF b THEN BoxOfSeq(Polyline(k)) ELSE NullBox] :
        ix \in SeqsUpTo(0..(k - 1), 1, MaxGeomIndices), b \in boxed }
    : k \in 1..MaxGeomVertices }

\* <<reservedVertexCount, reservedIndexCount>> arguments of addGeometry:
\* the defaults, or the same explicit reservation for both
Reservations == {<<-1, -1>>} \cup {<<k, k>> : k \in 1..MaxReserved}

\* what is remembered of a supplied geometry: its vertex and index data
Data(g) == [position |-> g.position, index |-> g.index]

NoData == [position |-> <<>>, index |-> <<>>]

\* ---------------------------------------------------------- typed arrays
Zeros(k) == [i \in 1..k |-> 0]

\* array[i] with a 0-based i; undefined (NaN) outside the array
At(arr, i) == IF i >= 0 /\ i < Len(arr) THEN arr[i + 1] ELSE NaN

\* array[i] = v with a 0-based i; ignored outside the array
Put(arr, i, v) ==
  IF i >= 0 /\ i < Len(arr) THEN [arr EXCEPT ![i + 1] = v] ELSE arr

\* value stored by a Uint16Array
U16(v) == v % IndexModulus

\* TypedArray.prototype.copyWithin(target, start, end)
CopyWithin(arr, target, start, end) ==
  LET len  == Len(arr)
      Rel(x) == IF x < 0 THEN Max(len + x, 0) ELSE Min(x, len)
      to   == Rel(target)
      from == Rel(start)
      fin  == Rel(end)
      cnt  == Min(fin - from, len - to)
  IN  IF cnt <= 0 THEN arr
      ELSE [k \in 1..len |->
              IF k - 1 >= to /\ k - 1 < to + cnt
              THEN arr[from + (k - 1 - to) + 1]
              ELSE arr[k]]

\* copyAttributeData(src, target, targetOffset): TypedArray.set of the source
\* vertices at the offset; TRUE when the range lies inside the target
CanCopyAttributeData(src, target, targetOffset) ==
  targetOffset >= 0 /\ targetOffset + Len(src) <= Len(target)

CopyAttributeData(src, target, targetOffset) ==
  [k \in 1..Len(target) |->
     IF k - 1 >= targetOffset /\ k - 1 < targetOffset + Len(src)
     THEN src[k - targetOffset]
     ELSE target[k]]

\* copyArrayContents(src, target): the leading min(length) elements
CopyArrayContents(src, target) ==
  [k \in 1..Len(target) |-> IF k <= Len(src) THEN src[k] ELSE target[k]]

\* ascIdSort(a, b): negative when a sorts before b
AscIdSort(a, b) == a - b

\* Array.prototype.sort(ascIdSort) of the reuse pool
RECURSIVE SortIds(_)
SortIds(s) ==
  IF s = <<>> THEN <<>>
  ELSE LET k == CHOOSE i \in 1..Len(s) :
                  \A j \in 1..Len(s) :
                    \/ AscIdSort(s[i], s[j]) < 0
                    \/ AscIdSort(s[i], s[j]) = 0 /\ i <= j
       IN  <<s[k]>> \o SortIds(SubSeq(s, 1, k - 1) \o SubSeq(s, k + 1, Len(s)))

\* ------------------------------------------------------------ the batch
\* The batch object as a record, so that a method is a function of it.
Cur ==
  [maxVertexCount |-> maxVertexCount, maxIndexCount |-> maxIndexCount,
   geometryInfo |-> geometryInfo, availableGeometryIds |-> availableGeometryIds,
   nextIndexStart |-> nextIndexStart, nextVertexStart |-> nextVertexStart,
   geometryCount |-> geometryCount, geometryInitialized |-> geometryInitialized,
   attributes |-> attributes, indexed |-> indexed,
   position |-> position, index |-> index, drawRange |-> drawRange,
   supplied |-> supplied]

Apply(s) ==
  /\ maxVertexCount' = s.maxVertexCount
  /\ maxIndexCount' = s.maxIndexCount
  /\ geometryInfo' = s.geometryInfo
  /\ availableGeometryIds' = s.availableGeometryIds
  /\ nextIndexStart' = s.nextIndexStart
  /\ nextVertexStart' = s.nextVertexStart
  /\ geometryCount' = s.geometryCount
  /\ geometryInitialized' = s.geometryInitialized
  /\ attributes' = s.attributes
  /\ indexed' = s.indexed
  /\ position' = s.position
  /\ index' = s.index
  /\ drawRange' = s.drawRange
  /\ supplied' = s.supplied

\* _initializeGeometry(reference): allocate the shared arrays once.
\* setAttribute replaces the attributes the reference names and keeps every
\* other attribute of this.geometry; setIndex is called only when the
\* reference has an index, so an index this.geometry already has stays
InitializeGeometry(s, refAttrs, refIndexed) ==
  IF s.geometryInitialized THEN s
  ELSE [s EXCEPT
          !.attributes =
             {a \in s.attributes : \A b \in refAttrs : b[1] # a[1]}
             \cup refAttrs,
          !.indexed = refIndexed \/ s.indexed,
          !.position = Zeros(Floor(s.maxVertexCount)),
          !.index = IF refIndexed THEN Zeros(Floor(s.maxIndexCount))
                    ELSE s.index,
          !.geometryInitialized = TRUE]

\* _validateGeometry without the comparison of itemSize
ValidateNamesOnly(s, g) ==
  /\ g.hasIndex = s.indexed
  /\ \A a \in s.attributes : \E b \in g.attrs : b[1] = a[1]

\* _validateGeometry: TRUE when no error is thrown
ValidateGeometry(s, g) ==
  /\ g.hasIndex = s.indexed
  /\ \A a \in s.attributes :
       /\ \E b \in g.attrs : b[1] = a[1]
       /\ \A b \in g.attrs : b[1] = a[1] => b[2] = a[2]

\* setGeometrySize(maxVertexCount, maxIndexCount): reallocate and copy
SetGeometrySize(s, newMaxVertexCount, newMaxIndexCount) ==
  LET resized == [s EXCEPT !.maxVertexCount = newMaxVertexCount,
                           !.maxIndexCount = newMaxIndexCount]
      fresh == IF s.geometryInitialized
               THEN InitializeGeometry(
                      [resized EXCEPT !.geometryInitialized = FALSE,
                                      !.position = <<>>, !.index = <<>>],
                      s.attributes, s.indexed)
               ELSE resized
  IN  [fresh EXCEPT
         !.index = IF s.indexed THEN CopyArrayContents(s.index, fresh.index)
                   ELSE fresh.index,
         !.position = CopyArrayContents(s.position, fresh.position)]

\* the capacities _resizeSpaceIfNeeded asks for
NewMaxIndexCount(s, g) ==
  IF g.hasIndex /\ IntGt(s.nextIndexStart + Len(g.index), s.maxIndexCount)
  THEN GrowBy(s.maxIndexCount, Len(g.index))
  ELSE s.maxIndexCount

NewMaxVertexCount(s, g) ==
  IF IntGt(s.nextVertexStart + Len(g.position), s.maxVertexCount)
  THEN GrowBy(s.maxVertexCount, Len(g.position))
  ELSE s.maxVertexCount

\* _resizeSpaceIfNeeded(geometry)
ResizeSpaceIfNeeded(s, g) ==
  IF \/ RatGt(NewMaxIndexCount(s, g), s.maxIndexCount)
     \/ RatGt(NewMaxVertexCount(s, g), s.maxVertexCount)
  THEN SetGeometrySize(s, NewMaxVertexCount(s, g), NewMaxIndexCount(s, g))
  ELSE s

\* validateGeometryId: TRUE when no error is thrown
ValidGeometryId(s, geometryId) ==
  /\ geometryId >= 0
  /\ geometryId < Len(s.geometryInfo)
  /\ s.geometryInfo[geometryId + 1].active

\* setGeometryAt that records the vertex count before it compares the
\* geometry with the reservation
SetGeometryAtCountFirst(s, geometryId, g) ==
  IF geometryId >= s.geometryCount
  THEN [s |-> s, status |-> "max-geometry-count"]
  ELSE IF ~ValidateGeometry(s, g) THEN [s |-> s, status |-> "schema"]
  ELSE [s |-> [s EXCEPT !.geometryInfo[geometryId + 1].vertexCount =
                          Len(g.position)],
        status |-> "not-large-enough"]

\* setGeometryAt(geometryId, geometry): the batch afterwards and the outcome
SetGeometryAtOp(s, geometryId, g) ==
  IF geometryId >= s.geometryCount
  THEN [s |-> s, status |-> "max-geometry-count"]
  ELSE IF ~ValidateGeometry(s, g) THEN [s |-> s, status |-> "schema"]
  ELSE
  LET info == s.geometryInfo[geometryId + 1]
      n == Len(g.position)
      m == Len(g.index)
  IN
  IF (s.indexed /\ m > info.reservedIndexCount) \/ n > info.reservedVertexCount
  THEN [s |-> s, status |-> "not-large-enough"]
  ELSE
  LET vertexStart == info.vertexStart
      counted == [s EXCEPT !.geometryInfo[geometryId + 1].vertexCount = n]
  IN
  IF ~CanCopyAttributeData(g.position, s.position, vertexStart)
  THEN [s |-> counted, status |-> "range-error"]
  ELSE
  LET copied == CopyAttributeData(g.position, s.position, vertexStart)
      \* fill the rest of the reservation with zeroes
      pos == [k \in 1..Len(copied) |->
                IF /\ k - 1 - vertexStart >= n
                   /\ k - 1 - vertexStart < info.reservedVertexCount
                THEN 0 ELSE copied[k]]
      indexStart == info.indexStart
      idx == IF s.indexed
             THEN [k \in 1..Len(s.index) |->
                     LET i == k - 1 - indexStart IN
                     IF i >= 0 /\ i < m THEN U16(vertexStart + g.index[i + 1])
                     ELSE IF i >= m /\ i < info.reservedIndexCount
                          THEN U16(vertexStart)
                     ELSE s.index[k]]
             ELSE s.index
      indexCount == IF s.indexed THEN m ELSE info.indexCount
      written == [info EXCEPT
                    !.vertexCount = n,
                    !.indexCount = indexCount,
                    !.start = IF s.indexed THEN info.indexStart
                              ELSE info.vertexStart,
                    !.count = IF s.indexed THEN indexCount ELSE n,
                    !.boundingBox = g.boundingBox]
  IN  [s |-> [s EXCEPT !.geometryInfo[geometryId + 1] = written,
                       !.position = pos,
                       !.index = idx,
                       !.supplied[geometryId + 1] = Data(g)],
       status |-> "ok"]

\* geometryInfo.position of a region that setGeometryInfo has given none
NoPosition == 0

\* the region addGeometry reserves at the insertion cursors, before it is
\* written
ReserveRegion(s, g, box, reservedVertexCount, reservedIndexCount) ==
  [vertexStart |-> s.nextVertexStart,
   vertexCount |-> -1,
   reservedVertexCount |->
     IF reservedVertexCount = -1 THEN Len(g.position) ELSE reservedVertexCount,
   indexStart |-> IF g.hasIndex THEN s.nextIndexStart ELSE -1,
   indexCount |-> -1,
   reservedIndexCount |->
     IF g.hasIndex
     THEN (IF reservedIndexCount = -1 THEN Len(g.index) ELSE reservedIndexCount)
     ELSE -1,
   start |-> -1,
   count |-> -1,
   boundingBox |-> box,
   active |-> TRUE,
   visible |-> TRUE,
   position |-> NoPosition]

\* the "Reserved space request exceeds the maximum buffer size" condition
ExceedsBuffer(s, info) ==
  \/ /\ info.indexStart # -1
     /\ IntGt(info.indexStart + info.reservedIndexCount, s.maxIndexCount)
  \/ IntGt(info.vertexStart + info.reservedVertexCount, s.maxVertexCount)

\* "update id" without sorting the reuse pool
TakeFirstPooledId(s, g, info) ==
  IF Len(s.availableGeometryIds) > 0
  THEN [geometryId |-> Head(s.availableGeometryIds),
        s |-> [s EXCEPT !.availableGeometryIds = Tail(s.availableGeometryIds),
                        !.geometryInfo[Head(s.availableGeometryIds) + 1] = info,
                        !.supplied[Head(s.availableGeometryIds) + 1] = Data(g)]]
  ELSE [geometryId |-> s.geometryCount,
        s |-> [s EXCEPT !.geometryCount = s.geometryCount + 1,
                        !.geometryInfo = Append(s.geometryInfo, info),
                        !.supplied = Append(s.supplied, Data(g))]]

\* "update id": the handle of the new region and the batch with the region
\* in its slot
TakeGeometryId(s, g, info) ==
  IF Len(s.availableGeometryIds) > 0
  THEN LET sorted == SortIds(s.availableGeometryIds)
       IN  [geometryId |-> Head(sorted),
            s |-> [s EXCEPT !.availableGeometryIds = Tail(sorted),
                            !.geometryInfo[Head(sorted) + 1] = info,
                            !.supplied[Head(sorted) + 1] = Data(g)]]
  ELSE [geometryId |-> s.geometryCount,
        s |-> [s EXCEPT !.geometryCount = s.geometryCount + 1,
                        !.geometryInfo = Append(s.geometryInfo, info),
                        !.supplied = Append(s.supplied, Data(g))]]

\* addGeometry(geometry, reservedVertexCount, reservedIndexCount):
\* the batch afterwards, the outcome and the returned handle
AddGeometryOp(s0, g, reservedVertexCount, reservedIndexCount) ==
  LET s1 == InitializeGeometry(s0, g.attrs, g.hasIndex) IN
  IF ~ValidateGeometry(s1, g) THEN [s |-> s1, status |-> "schema", ret |-> -1]
  ELSE
  LET box == IF g.boundingBox = NullBox THEN ComputeBoundingBox(g)
             ELSE g.boundingBox
      s2 == ResizeSpaceIfNeeded(s1, g)
      info == ReserveRegion(s2, g, box, reservedVertexCount, reservedIndexCount)
  IN
  IF ExceedsBuffer(s2, info)
  THEN [s |-> s2, status |-> "exceeds-buffer", ret |-> -1]
  ELSE
  LET taken == TakeGeometryId(s2, g, info)
      set == SetGeometryAtOp(taken.s, taken.geometryId,
                             [g EXCEPT !.boundingBox = box])
  IN
  IF set.status # "ok" THEN [s |-> set.s, status |-> set.status, ret |-> -1]
  ELSE [s |-> [set.s EXCEPT
                 !.nextIndexStart = info.indexStart + info.reservedIndexCount,
                 !.nextVertexStart = info.vertexStart + info.reservedVertexCount],
        status |-> "ok", ret |-> taken.geometryId]

\* deleteGeometry without the test for an already deleted region
DeleteGeometryTwice(s, geometryId) ==
  IF geometryId < 0 \/ geometryId >= Len(s.geometryInfo)
  THEN s
  ELSE [s EXCEPT !.geometryInfo[geometryId + 1].active = FALSE,
                 !.geometryInfo[geometryId + 1].visible = FALSE,
                 !.availableGeometryIds = Append(s.availableGeometryIds, geometryId)]

\* deleteGeometry(geometryId): how the call ends; below zero
\* geometryInfoList[geometryId] is undefined and reading its .active throws
DeleteGeometryStatus(s, geometryId) ==
  IF geometryId < 0 THEN "type-error" ELSE "ok"

\* deleteGeometry(geometryId): the batch afterwards
DeleteGeometryOp(s, geometryId) ==
  IF \/ geometryId < 0
     \/ geometryId >= Len(s.geometryInfo)
     \/ ~s.geometryInfo[geometryId + 1].active
  THEN s
  ELSE [s EXCEPT !.geometryInfo[geometryId + 1].active = FALSE,
                 !.geometryInfo[geometryId + 1].visible = FALSE,
                 !.availableGeometryIds = Append(s.availableGeometryIds, geometryId)]

\* setVisibleAt that tests the range of the handle but not its active flag
SetVisibleAtOfDeleted(s, geometryId, value) ==
  IF geometryId < 0 \/ geometryId >= Len(s.geometryInfo)
  THEN [s |-> s, status |-> "invalid-id"]
  ELSE [s |-> [s EXCEPT !.geometryInfo[geometryId + 1].visible = value],
        status |-> "ok"]

\* setVisibleAt(geometryId, value): the batch afterwards and the outcome
SetVisibleAtOp(s, geometryId, value) ==
  IF ~ValidGeometryId(s, geometryId) THEN [s |-> s, status |-> "invalid-id"]
  ELSE IF s.geometryInfo[geometryId + 1].visible = value
  THEN [s |-> s, status |-> "ok"]
  ELSE [s |-> [s EXCEPT !.geometryInfo[geometryId + 1].visible = value],
        status |-> "ok"]

\* the handles of the active regions in handle order
RECURSIVE SortByHandle(_, _)
SortByHandle(s, ids) ==
  IF ids = {} THEN <<>>
  ELSE LET first == CHOOSE a \in ids : \A b \in ids : a <= b
       IN  <<first>> \o SortByHandle(s, ids \ {first})

\* the handles of the active regions, stably sorted by vertexStart
RECURSIVE SortByVertexStart(_, _)
SortByVertexStart(s, ids) ==
  IF ids = {} THEN <<>>
  ELSE LET first == CHOOSE a \in ids : \A b \in ids :
                      \/ s.geometryInfo[a + 1].vertexStart
                           < s.geometryInfo[b + 1].vertexStart
                      \/ /\ s.geometryInfo[a + 1].vertexStart
                              = s.geometryInfo[b + 1].vertexStart
                         /\ a <= b
       IN  <<first>> \o SortByVertexStart(s, ids \ {first})

ActiveIds(s) ==
  {h \in 0..(Len(s.geometryInfo) - 1) : s.geometryInfo[h + 1].active}

\* indexArray[i] += delta for i in [from, from + cnt)
AddDelta(arr, from, cnt, delta) ==
  [k \in 1..Len(arr) |->
     IF k - 1 >= from /\ k - 1 < from + cnt THEN U16(arr[k] + delta)
     ELSE arr[k]]

\* one iteration of the packing loop of optimize; acc carries the batch and
\* the two local cursors
OptimizePack(acc, h) ==
  LET s == acc.s
      info == s.geometryInfo[h + 1]
      vertexCount == info.vertexCount
      indexCount == IF s.indexed THEN info.indexCount ELSE 0
      moveVertices == info.vertexStart # acc.nextVertexStart
      pos == IF moveVertices
             THEN CopyWithin(s.position, acc.nextVertexStart, info.vertexStart,
                             info.vertexStart + vertexCount)
             ELSE s.position
      \* info.vertexStart after the vertex move
      vertexStart == IF moveVertices THEN acc.nextVertexStart
                     ELSE info.vertexStart
      moveIndices == s.indexed /\ info.indexStart # acc.nextIndexStart
      \* computed after info.vertexStart was overwritten
      delta == acc.nextVertexStart - vertexStart
      idx == IF moveIndices
             THEN CopyWithin(
                    AddDelta(s.index, info.indexStart, indexCount, delta),
                    acc.nextIndexStart, info.indexStart,
                    info.indexStart + indexCount)
             ELSE s.index
      indexStart == IF moveIndices THEN acc.nextIndexStart ELSE info.indexStart
      packed == [info EXCEPT
                   !.vertexStart = vertexStart,
                   !.indexStart = indexStart,
                   !.start = IF s.indexed THEN indexStart ELSE vertexStart,
                   !.count = IF s.indexed THEN indexCount ELSE vertexCount]
  IN  [s |-> [s EXCEPT !.geometryInfo[h + 1] = packed,
                       !.position = pos,
                       !.index = idx],
       nextVertexStart |-> acc.nextVertexStart + vertexCount,
       nextIndexStart |-> acc.nextIndexStart + indexCount]

RECURSIVE OptimizeLoop(_, _)
OptimizeLoop(acc, order) ==
  IF order = <<>> THEN acc
  ELSE OptimizeLoop(OptimizePack(acc, Head(order)), Tail(order))

\* optimize()
OptimizeOp(s) ==
  LET done == OptimizeLoop(
                [s |-> s, nextVertexStart |-> 0, nextIndexStart |-> 0],
                SortByVertexStart(s, ActiveIds(s)))
      cleared == IF s.indexed
                 THEN [k \in 1..Len(done.s.index) |->
                         IF k - 1 >= done.nextIndexStart THEN 0
                         ELSE done.s.index[k]]
                 ELSE done.s.index
  IN  [done.s EXCEPT
         !.index = cleared,
         !.drawRange = IF s.indexed THEN <<0, done.nextIndexStart>>
                       ELSE <<0, done.nextVertexStart>>,
         !.nextVertexStart = done.nextVertexStart,
         !.nextIndexStart = done.nextIndexStart]

\* the vertex the draw-range element i denotes (through the index if any)
DrawnVertex(s, i) ==
  IF s.indexed
  THEN (IF At(s.index, i) = NaN THEN NaN ELSE At(s.position, At(s.index, i)))
  ELSE At(s.position, i)

\* the positions read over [start, start + count) of a region
DrawnPositions(s, geometryId) ==
  LET info == s.geometryInfo[geometryId + 1]
  IN  [k \in 1..Max(info.count, 0) |-> DrawnVertex(s, info.start + k - 1)]

\* getBoundingBoxAt(geometryId, target): the batch afterwards (the box is
\* cached) and the box returned (NullBox for null)
GetBoundingBoxAtOp(s, geometryId) ==
  IF geometryId >= s.geometryCount THEN [s |-> s, ret |-> NullBox]
  ELSE IF s.geometryInfo[geometryId + 1].boundingBox # NullBox
  THEN [s |-> s, ret |-> s.geometryInfo[geometryId + 1].boundingBox]
  ELSE LET box == BoxOfSeq(DrawnPositions(s, geometryId))
       IN  [s |-> [s EXCEPT !.geometryInfo[geometryId + 1].boundingBox = box],
            ret |-> box]

\* the probed coordinate lies on the segment between two vertices
OnSegment(a, p, b) ==
  /\ a # NaN /\ b # NaN
  /\ Min(a, b) <= p /\ p <= Max(a, b)

\* LineSegments.raycast over the draw range of region h, for a ray that
\* meets the line at coordinate p: the first draw elements of the segments
\* hit, in draw order. The bounding-sphere test that precedes the segments
\* is the test of the region's bounding interval.
SegmentHits(s, h, p) ==
  LET info == s.geometryInfo[h + 1]
      limit == IF s.indexed THEN Len(s.index) ELSE Len(s.position)
      start == Max(0, info.start)
      end == Min(limit, info.start + info.count)
      box == GetBoundingBoxAtOp(s, h).ret
      pairs == [k \in 1..(Max(0, end - start) \div 2) |-> start + 2 * (k - 1)]
      Hit(i) == OnSegment(DrawnVertex(s, i), p, DrawnVertex(s, i + 1))
  IN  IF box[1] = NaN \/ IsEmpty(box) \/ p < box[1] \/ p > box[2]
      THEN <<>>
      ELSE [k \in 1..Len(SelectSeq(pairs, Hit)) |->
              [batchId |-> h, at |-> SelectSeq(pairs, Hit)[k]]]

\* _intersectWith that does not skip hidden and deleted regions
IntersectAll(acc, geometryId, p) ==
  [s |-> GetBoundingBoxAtOp(acc.s, geometryId).s,
   ret |-> acc.ret \o SegmentHits(acc.s, geometryId, p)]

\* _intersectWith(geometryId, raycaster, intersects) for a region without
\* bboxIntersectionCheck: the batch (the region's box is cached) and the
\* intersects list afterwards
IntersectWith(acc, geometryId, p) ==
  LET info == acc.s.geometryInfo[geometryId + 1] IN
  IF ~info.visible \/ ~info.active THEN acc
  ELSE [s |-> GetBoundingBoxAtOp(acc.s, geometryId).s,
        ret |-> acc.ret \o SegmentHits(acc.s, geometryId, p)]

RECURSIVE RaycastLoop(_, _, _)
RaycastLoop(acc, i, p) ==
  IF i >= Len(acc.s.geometryInfo) THEN acc
  ELSE RaycastLoop(IntersectWith(acc, i, p), i + 1, p)

\* raycast(raycaster, intersects) with an empty intersects list
RaycastOp(s, p) == RaycastLoop([s |-> s, ret |-> <<>>], 0, p)

\* what a call that throws returns in place of a geometry
NoGeometry ==
  [attrs |-> {}, position |-> <<>>, hasIndex |-> FALSE, index |-> <<>>,
   boundingBox |-> NullBox]

\* extractGeometry(batchIds): how the call ends and the geometry returned.
\* The destination arrays are sized with maxVertexCount, a name that is not
\* declared in the method, so the loop over the batch's attributes throws a
\* ReferenceError on its first attribute.
ExtractGeometryOp(s, batchIds) ==
  IF \E i \in 1..Len(batchIds) : ~ValidGeometryId(s, batchIds[i])
  THEN [status |-> "invalid-id", geometry |-> NoGeometry]
  ELSE IF s.attributes # {}
  THEN [status |-> "reference-error", geometry |-> NoGeometry]
  ELSE [status |-> "ok",
        geometry |-> [attrs |-> {}, position |-> <<>>, hasIndex |-> FALSE,
                      index |-> <<>>, boundingBox |-> EmptyBox]]

\* get mappingStats(): the count it reports (the length of the region table)
MappingStatsCount(s) == Len(s.geometryInfo)

\* reset()
ResetOp(s) ==
  [s EXCEPT !.geometryInfo = <<>>,
            !.availableGeometryIds = <<>>,
            !.nextIndexStart = 0,
            !.nextVertexStart = 0,
            !.geometryCount = 0,
            !.geometryInitialized = FALSE,
            !.supplied = <<>>]

\* setGeometryInfo(geometryId, userData): the position of the point the
\* region draws
SetGeometryInfoOp(s, geometryId, userPosition) ==
  IF geometryId >= s.geometryCount
  THEN [s |-> s, status |-> "maximum-count"]
  ELSE [s |-> IF userPosition # NoPosition
              THEN [s EXCEPT !.geometryInfo[geometryId + 1].position =
                               userPosition]
              ELSE s,
        status |-> "ok"]

\* getUserData(): one item for every slot of the region table
GetUserData(s) == [i \in 1..Len(s.geometryInfo) |-> s.geometryInfo[i].position]

\* the forEach of resetGeometry: for an item with a position the creator
\* builds the symbol, and a symbol with a line becomes a region; an
\* exception of addGeometry ends the loop
RECURSIVE ResetGeometryLoop(_, _, _, _)
ResetGeometryLoop(acc, userData, hasLine, line) ==
  IF userData = <<>> \/ acc.status # "ok" THEN acc
  ELSE IF Head(userData) = NoPosition \/ ~hasLine
  THEN ResetGeometryLoop(acc, Tail(userData), hasLine, line)
  ELSE LET added == AddGeometryOp(acc.s, line, -1, -1) IN
       IF added.status # "ok"
       THEN [s |-> added.s, status |-> added.status]
       ELSE ResetGeometryLoop(
              SetGeometryInfoOp(added.s, added.ret, Head(userData)),
              Tail(userData), hasLine, line)

\* resetGeometry(displayMode), where the symbol of the display mode has a
\* line or has none
ResetGeometryOp(s, hasLine, line) ==
  ResetGeometryLoop([s |-> ResetOp(s), status |-> "ok"],
                    GetUserData(s), hasLine, line)

\* target.copy(source): the geometry, the region table, the capacities, the
\* count and the initialized flag of the source; the cursors and the reuse
\* pool are not assigned and stay those of the target
CopyOp(target, source) ==
  [target EXCEPT !.attributes = source.attributes,
                 !.indexed = source.indexed,
                 !.position = source.position,
                 !.index = source.index,
                 !.drawRange = source.drawRange,
                 !.geometryInfo = source.geometryInfo,
                 !.maxVertexCount = source.maxVertexCount,
                 !.maxIndexCount = source.maxIndexCount,
                 !.geometryInitialized = source.geometryInitialized,
                 !.geometryCount = source.geometryCount,
                 !.supplied = source.supplied]

\* -------------------------------------------------------------- the scene
\* block table record ids of the layouts of a drawing
LayoutIds == {"model", "paper"}

\* new AcTrScene(): the table of layouts in insertion order, the layout
\* objects that are children of the three.js scene without being in the
\* table, and the two ids
NewScene ==
  [layouts |-> <<>>, detached |-> {}, activeLayoutBtrId |-> "",
   modelSpaceBtrId |-> ""]

\* new AcTrLayout() under its key, with the object ids of its entities
NewLayout(key, visible) == [key |-> key, visible |-> visible, entities |-> {}]

\* _layouts.has(key)
HasLayout(sc, key) == \E i \in 1..Len(sc.layouts) : sc.layouts[i].key = key

\* the place of key in the table
LayoutIndex(sc, key) ==
  CHOOSE i \in 1..Len(sc.layouts) : sc.layouts[i].key = key

\* set activeLayoutBtrId that shows the layout of the id and hides none
ShowActiveLayoutOnly(sc, value) ==
  [sc EXCEPT
     !.activeLayoutBtrId = value,
     !.layouts = [i \in 1..Len(sc.layouts) |->
                    [sc.layouts[i] EXCEPT
                       !.visible = @ \/ value = sc.layouts[i].key]]]

\* set activeLayoutBtrId(value)
SetActiveLayoutBtrId(sc, value) ==
  [sc EXCEPT
     !.activeLayoutBtrId = value,
     !.layouts = [i \in 1..Len(sc.layouts) |->
                    [sc.layouts[i] EXCEPT
                       !.visible = (value = sc.layouts[i].key)]]]

\* set modelSpaceBtrId(value): the id is stored before the test that throws
SetModelSpaceBtrId(sc, value) ==
  [s |-> [sc EXCEPT !.modelSpaceBtrId = value],
   status |-> IF HasLayout(sc, value) THEN "ok" ELSE "error"]

\* addEmptyLayout(ownerId): Map.set replaces the layout of a key that is in
\* the table; the replaced object stays a child of the three.js scene
AddEmptyLayout(sc, ownerId) ==
  LET layout == NewLayout(ownerId, ownerId = sc.activeLayoutBtrId)
  IN  IF HasLayout(sc, ownerId)
      THEN [sc EXCEPT
              !.layouts[LayoutIndex(sc, ownerId)] = layout,
              !.detached = @ \cup {sc.layouts[LayoutIndex(sc, ownerId)]}]
      ELSE [sc EXCEPT !.layouts = Append(@, layout)]

\* AcTrScene.clear()
SceneClear(sc) == [sc EXCEPT !.layouts = <<>>, !.detached = {}]

\* AcTrScene.addEntity(entity, extendBbox)
SceneAddEntity(sc, entity) ==
  IF entity.ownerId = "" THEN sc
  ELSE LET found == IF HasLayout(sc, entity.ownerId) THEN sc
                    ELSE AddEmptyLayout(sc, entity.ownerId)
           i == LayoutIndex(found, entity.ownerId)
       IN  [found EXCEPT !.layouts[i].entities = @ \cup {entity.objectId}]

\* AcTrScene.removeEntity(objectId): the first layout that holds it
SceneRemoveEntity(sc, objectId) ==
  LET holders == {i \in 1..Len(sc.layouts) : objectId \in sc.layouts[i].entities}
  IN  IF holders = {} THEN sc
      ELSE LET i == CHOOSE j \in holders : \A k \in holders : j <= k
           IN  [sc EXCEPT !.layouts[i].entities = @ \ {objectId}]

\* --------------------------------------------------------------- the view
\* what drawing one database entity gives: worldDraw returns an entity, a
\* group spread over several layers or null, or throws; or the draw() of the
\* returned entity rejects
DrawOutcomes == {"entity", "group", "null", "throws", "rejects"}

\* database entities handed to the view, each owned by one layout: one of
\* the model space with any outcome, one of the paper space that draws
Entities ==
  { [objectId |-> "e1", ownerId |-> "model", draw |-> d] : d \in DrawOutcomes }
  \cup { [objectId |-> "e2", ownerId |-> "paper", draw |-> "entity"] }

\* entities of one bulk add: 1..MaxBatch
MaxBatch == 2

\* calls made on the view and on the registry of managers
MaxViewCalls == 3
MaxRegistryCalls == 4
MaxFrameCalls == 3

\* decreaseNumOfEntitiesToProcess()
DecreaseNumOfEntitiesToProcess(n) == IF n - 1 < 0 THEN 0 ELSE n - 1

\* one iteration of the loop of batchConvert: the scene and the counter
\* afterwards, and whether the iteration ended batchConvert with an exception
ConvertEntity(sc, n, entity) ==
  IF entity.draw = "throws"
  THEN [scene |-> sc, numOfEntitiesToProcess |-> n, aborted |-> TRUE]
  ELSE IF entity.draw = "null"
  THEN [scene |-> sc,
        numOfEntitiesToProcess |-> DecreaseNumOfEntitiesToProcess(n),
        aborted |-> FALSE]
  ELSE IF entity.draw = "rejects"
  THEN [scene |-> sc,
        numOfEntitiesToProcess |-> DecreaseNumOfEntitiesToProcess(n),
        aborted |-> TRUE]
  ELSE [scene |-> SceneAddEntity(sc, entity),
        numOfEntitiesToProcess |-> DecreaseNumOfEntitiesToProcess(n),
        aborted |-> FALSE]

\* get activeLayout(): whether the scene has the layout of the active id
HasActiveLayout(sc) ==
  sc.activeLayoutBtrId # "" /\ HasLayout(sc, sc.activeLayoutBtrId)

\* layout.box.isEmpty(): the box of a layout is the union of the boxes of
\* the entities added to it
LayoutBoxIsEmpty(layout) == layout.entities = {}

\* what the block table of the database may hold under a layout's id: no
\* record, a record without entities, or a record with entities of that
\* layout
RecordsOf(layoutBtrId) ==
  {<<>>} \cup
  {b \in SeqsUpTo(Entities, 1, MaxBatch) :
     /\ \A i \in 1..Len(b) : b[i].ownerId = layoutBtrId
     /\ \A i \in 1..Len(b) : \A j \in 1..Len(b) :
          i # j => b[i].objectId # b[j].objectId}

\* loadLayoutEntitiesIfNeeded(layoutBtrId): the scene and the counter
\* afterwards and the entities handed to a timer for batchConvert
LoadLayoutEntitiesIfNeeded(sc, n, layoutBtrId, found, entities) ==
  IF ~found
  THEN [scene |-> sc, numOfEntitiesToProcess |-> n, scheduled |-> <<>>]
  ELSE IF /\ HasActiveLayout(sc)
          /\ ~LayoutBoxIsEmpty(
                sc.layouts[LayoutIndex(sc, sc.activeLayoutBtrId)])
  THEN [scene |-> sc, numOfEntitiesToProcess |-> n, scheduled |-> <<>>]
  ELSE [scene |-> AddEmptyLayout(sc, layoutBtrId),
        numOfEntitiesToProcess |-> n + Len(entities),
        scheduled |-> entities]

\* AcTrScene.select / unselect / hover / unhover: whether there is an
\* active layout to pass the ids to
SceneSelect(sc) == HasActiveLayout(sc)

\* the animation loop of the view as a value
Loop == [rafId |-> rafId, frames |-> frames]

\* requestAnimationFrame(animate): an id that names no pending request
RequestAnimationFrame(loop) ==
  LET id == CHOOSE k \in 1..(Cardinality(loop.frames) + 2) :
              /\ k \notin loop.frames \cup {loop.rafId}
              /\ \A j \in 1..(k - 1) : j \in loop.frames \cup {loop.rafId}
  IN  [rafId |-> id, frames |-> loop.frames \cup {id}]

\* startAnimationLoop without the test of _rafId
StartAnotherLoop(loop) == RequestAnimationFrame(loop)

\* startAnimationLoop()
StartAnimationLoopOp(loop) ==
  IF loop.rafId = 0 THEN RequestAnimationFrame(loop) ELSE loop

\* stopAnimationLoop()
StopAnimationLoopOp(loop) ==
  IF loop.rafId # 0
  THEN [rafId |-> 0, frames |-> loop.frames \ {loop.rafId}]
  ELSE loop

\* ---------------------------------------------------- the document manager
\* no openUrl / openDocument call has been made
NoOpen ==
  [stage |-> "idle", kind |-> "none", databaseOpened |-> FALSE,
   result |-> "none", documentActivated |-> 0, failedToOpenFile |-> 0]

\* AcApDocument.openUri / openDocument once the database open has settled:
\* isSuccess and the 'failed-to-open-file' events emitted
DocumentOpen(databaseOpened) ==
  [isSuccess |-> databaseOpened,
   failedToOpenFile |-> IF databaseOpened THEN 0 ELSE 1]

\* setActiveLayout()
SetActiveLayout(sc, currentSpaceId) ==
  SetModelSpaceBtrId(SetActiveLayoutBtrId(sc, currentSpaceId), currentSpaceId)

\* onAfterOpenDocument(isSuccess): the scene afterwards, the
\* documentActivated events dispatched and how the call ends
OnAfterOpenDocument(sc, isSuccess, currentSpaceId) ==
  IF isSuccess
  THEN [scene |-> SetActiveLayout(sc, currentSpaceId).s,
        documentActivated |-> 1,
        status |-> SetActiveLayout(sc, currentSpaceId).status]
  ELSE [scene |-> sc, documentActivated |-> 0, status |-> "ok"]

\* DEFAULT_INSTANCE_ID
DefaultInstanceId == "default"

\* instance ids passed to createNewInstance; "" stands for none
InstanceIds == {"", "default", "dialog-viewer"}

\* ids createNewInstance generates when it is given none
GeneratedIds == {"instance-1"}

\* managers constructed in one run
MaxManagers == 3

\* the static state of AcApDocManager and the managers constructed
Registry == [managers |-> managers, instances |-> instances, instance |-> instance]

\* new AcApDocManager(options, instanceId) and _instances.set(instanceId, it)
Construct(reg, instanceId) ==
  LET m == Len(reg.managers) + 1
  IN  [reg EXCEPT
         !.managers = Append(@, [instanceId |-> instanceId, destroyed |-> FALSE]),
         !.instances = [k \in DOMAIN reg.instances \cup {instanceId} |->
                          IF k = instanceId THEN m ELSE reg.instances[k]]]

\* static createInstance(options)
CreateInstanceOp(reg) ==
  IF reg.instance = 0
  THEN LET made == Construct(reg, DefaultInstanceId)
       IN  [reg |-> [made EXCEPT !.instance = Len(made.managers)],
            ret |-> Len(made.managers)]
  ELSE [reg |-> reg, ret |-> reg.instance]

\* static createNewInstance(options, instanceId)
CreateNewInstanceOp(reg, instanceId, generated) ==
  LET id == IF instanceId = "" THEN generated ELSE instanceId
  IN  IF id \in DOMAIN reg.instances
      THEN [reg |-> reg, ret |-> reg.instances[id]]
      ELSE [reg |-> Construct(reg, id), ret |-> Len(reg.managers) + 1]

\* static get instance()
InstanceOp(reg) ==
  IF reg.instance = 0
  THEN LET made == Construct(reg, DefaultInstanceId)
       IN  [reg |-> [made EXCEPT !.instance = Len(made.managers)],
            ret |-> Len(made.managers)]
  ELSE [reg |-> reg, ret |-> reg.instance]

\* destroy() of manager m
DestroyOp(reg, m) ==
  LET id == reg.managers[m].instanceId
  IN  [reg EXCEPT
         !.managers[m].destroyed = TRUE,
         !.instances = [k \in DOMAIN reg.instances \ {id} |-> reg.instances[k]],
         !.instance = IF id = DefaultInstanceId THEN 0 ELSE @]

\* ------------------------------------------------------------------- init
\* the log of a batch that keeps none
NoLog == <<[op |-> "off", id |-> -1, size |-> -1, status |-> "ok", ret |-> -1]>>

\* new AcTrBatchedLine(maxVertexCount): the index capacity defaults to twice
\* the vertex capacity
Constructed(vertexCount, keptLog) ==
  /\ maxVertexCount = Rat(vertexCount)
  /\ maxIndexCount = Rat(vertexCount * 2)
  /\ geometryInfo = <<>>
  /\ availableGeometryIds = <<>>
  /\ nextIndexStart = 0
  /\ nextVertexStart = 0
  /\ geometryCount = 0
  /\ geometryInitialized = FALSE
  /\ attributes = {}
  /\ indexed = FALSE
  /\ position = <<>>
  /\ index = <<>>
  /\ drawRange = <<0, -1>>
  /\ supplied = <<>>
  /\ last = [op |-> "new", id |-> -1, status |-> "ok", ret |-> -1]
  /\ calls = 0
  /\ log = keptLog
  /\ scene = NewScene
  /\ numOfEntitiesToProcess = 0
  /\ conversions = <<>>
  /\ opening = NoOpen
  /\ managers = <<>>
  /\ instances = <<>>
  /\ instance = 0
  /\ did = [op |-> "new", arg |-> "", ret |-> 0, n |-> 0]
  /\ submissions = <<>>
  /\ isDirty = TRUE
  /\ rafId = 1
  /\ frames = {1}

\* new AcTrBatchedLine(vertexCount) as a value
Fresh(vertexCount) ==
  [maxVertexCount |-> Rat(vertexCount),
   maxIndexCount |-> Rat(vertexCount * 2),
   geometryInfo |-> <<>>,
   availableGeometryIds |-> <<>>,
   nextIndexStart |-> 0,
   nextVertexStart |-> 0,
   geometryCount |-> 0,
   geometryInitialized |-> FALSE,
   attributes |-> {},
   indexed |-> FALSE,
   position |-> <<>>,
   index |-> <<>>,
   drawRange |-> <<0, -1>>,
   supplied |-> <<>>]

Init == Constructed(InitVertexCount, NoLog)

\* ---------------------------------------------------------------- actions
Call(op, id, size, status, ret) ==
  /\ UNCHANGED appVars
  /\ calls' = calls + 1
  /\ last' = [op |-> op, id |-> id, status |-> status, ret |-> ret]
  /\ log' = IF log = NoLog THEN log
            ELSE Append(log, [op |-> op, id |-> id, size |-> size,
                              status |-> status, ret |-> ret])

\* the model's bounds on what an addGeometry call may grow
WithinBounds(s, slots) ==
  /\ RatGt(s.maxVertexCount, maxVertexCount)
       => Floor(s.maxVertexCount) <= MaxVertexCells
  /\ RatGt(s.maxIndexCount, maxIndexCount)
       => Floor(s.maxIndexCount) <= MaxIndexCells
  /\ Len(s.geometryInfo) <= slots

AddGeometry(g, reservedVertexCount, reservedIndexCount, slots) ==
  \E r \in {AddGeometryOp(Cur, g, reservedVertexCount, reservedIndexCount)} :
      /\ WithinBounds(r.s, slots)
      /\ Apply(r.s)
      /\ Call("addGeometry", -1, Len(g.position), r.status, r.ret)

SetGeometryAt(geometryId, g) ==
  \E r \in {SetGeometryAtOp(Cur, geometryId, g)} :
      /\ geometryInitialized
      /\ Apply(r.s)
      /\ Call("setGeometryAt", geometryId, Len(g.position), r.status, -1)

DeleteGeometry(geometryId) ==
  /\ \E s \in {DeleteGeometryOp(Cur, geometryId)} : Apply(s)
  /\ Call("deleteGeometry", geometryId, -1,
          DeleteGeometryStatus(Cur, geometryId), -1)

SetVisibleAt(geometryId, value) ==
  \E r \in {SetVisibleAtOp(Cur, geometryId, value)} :
      /\ Apply(r.s)
      /\ Call("setVisibleAt", geometryId, -1, r.status, -1)

Optimize ==
  /\ \E s \in {OptimizeOp(Cur)} : Apply(s)
  /\ Call("optimize", -1, -1, "ok", -1)

Reset ==
  /\ \E s \in {ResetOp(Cur)} : Apply(s)
  /\ Call("reset", -1, -1, "ok", -1)

SetGeometryInfo(geometryId, userPosition) ==
  \E r \in {SetGeometryInfoOp(Cur, geometryId, userPosition)} :
      /\ Apply(r.s)
      /\ Call("setGeometryInfo", geometryId, -1, r.status, -1)

ResetGeometry(hasLine, line, slots) ==
  \E r \in {ResetGeometryOp(Cur, hasLine, line)} :
      /\ WithinBounds(r.s, slots)
      /\ Apply(r.s)
      /\ Call("resetGeometry", -1, -1, r.status, -1)

GetBoundingBoxAt(geometryId) ==
  /\ geometryInitialized
  /\ \E r \in {GetBoundingBoxAtOp(Cur, geometryId)} : Apply(r.s)
  /\ Call("getBoundingBoxAt", geometryId, -1, "ok", -1)

Raycast(p) ==
  \E r \in {RaycastOp(Cur, p)} :
      /\ Apply(r.s)
      /\ Call("raycast", p, -1, "ok", Len(r.ret))

\* ------------------------------------------- actions of the application layer
Did(op, arg, ret) ==
  did' = [op |-> op, arg |-> arg, ret |-> ret, n |-> did.n + 1]

\* the ghost entry of a batchConvert that has just been scheduled
Submitted(by) == [by |-> by, cleared |-> FALSE]

\* clear() has run while these batchConvert calls were pending
Cleared(subs) == [i \in 1..Len(subs) |-> [subs[i] EXCEPT !.cleared = TRUE]]

\* a sequence without its entry i
Without(s, i) == SubSeq(s, 1, i - 1) \o SubSeq(s, i + 1, Len(s))

\* batchConvert sets _isDirty when the entity reaches the scene: in the
\* then() of draw(), or at the end of handleGroup
Drawn(entity) == entity.draw \in {"entity", "group"}

\* a timer or a settled promise resumes the code of an earlier call
Resumed(op) ==
  did' = [op |-> op, arg |-> "", ret |-> 0, n |-> did.n]

\* AcTrView2d: set activeLayoutBtrId(value)
ActiveLayoutBtrId(value) ==
  /\ scene' = SetActiveLayoutBtrId(scene, value)
  /\ isDirty' = TRUE
  /\ Did("activeLayoutBtrId", value, 0)
  /\ UNCHANGED <<batchVars, loopVars, numOfEntitiesToProcess, conversions,
                 submissions, opening, managers, instances, instance>>

\* AcTrView2d.addLayout(layout)
AddLayout(blockTableRecordId) ==
  /\ scene' = AddEmptyLayout(scene, blockTableRecordId)
  /\ isDirty' = TRUE
  /\ Did("addLayout", blockTableRecordId, 0)
  /\ UNCHANGED <<batchVars, loopVars, numOfEntitiesToProcess, conversions,
                 submissions, opening, managers, instances, instance>>

\* AcTrView2d.addEntity(entities): the conversion is left to a timer
AddEntity(entities) ==
  /\ numOfEntitiesToProcess' = numOfEntitiesToProcess + Len(entities)
  /\ conversions' = Append(conversions, entities)
  /\ submissions' = Append(submissions, Submitted("addEntity"))
  /\ isDirty' = TRUE
  /\ Did("addEntity", "", Len(entities))
  /\ UNCHANGED <<batchVars, loopVars, scene, opening, managers, instances,
                 instance>>

\* AcTrView2d.removeEntity(entity)
RemoveEntity(objectId) ==
  /\ scene' = SceneRemoveEntity(scene, objectId)
  /\ isDirty' = TRUE
  /\ Did("removeEntity", objectId, 0)
  /\ UNCHANGED <<batchVars, loopVars, numOfEntitiesToProcess, conversions,
                 submissions, opening, managers, instances, instance>>

\* the listener of layoutSwitched: the layout becomes the active one and
\* its entities are loaded if needed
LayoutSwitched(layoutBtrId, found, entities) ==
  /\ \E r \in {LoadLayoutEntitiesIfNeeded(
                  SetActiveLayoutBtrId(scene, layoutBtrId),
                  numOfEntitiesToProcess, layoutBtrId, found, entities)} :
       /\ scene' = r.scene
       /\ numOfEntitiesToProcess' = r.numOfEntitiesToProcess
       /\ conversions' = IF r.scheduled = <<>> THEN conversions
                         ELSE Append(conversions, r.scheduled)
       /\ submissions' = IF r.scheduled = <<>> THEN submissions
                         ELSE Append(submissions, Submitted("layout"))
       /\ Did("layoutSwitched", layoutBtrId, Len(r.scheduled))
  /\ isDirty' = TRUE
  /\ UNCHANGED <<batchVars, loopVars, opening, managers, instances, instance>>

\* AcTrView2d.clear()
Clear ==
  /\ scene' = SceneClear(scene)
  /\ submissions' = Cleared(submissions)
  /\ isDirty' = TRUE
  /\ Did("clear", "", 0)
  /\ UNCHANGED <<batchVars, loopVars, numOfEntitiesToProcess, conversions,
                 opening, managers, instances, instance>>

\* highlight, unhighlight, onHover and onUnhover: the flag takes what the
\* scene returns
Highlight(op) ==
  /\ isDirty' = SceneSelect(scene)
  /\ Did(op, "", 0)
  /\ UNCHANGED <<batchVars, loopVars, scene, numOfEntitiesToProcess,
                 conversions, submissions, opening, managers, instances,
                 instance>>

ApplyLoop(loop) ==
  /\ rafId' = loop.rafId
  /\ frames' = loop.frames

StartAnimationLoop ==
  /\ ApplyLoop(StartAnimationLoopOp(Loop))
  /\ Did("startAnimationLoop", "", 0)
  /\ UNCHANGED <<batchVars, scene, numOfEntitiesToProcess, conversions,
                 submissions, isDirty, opening, managers, instances, instance>>

StopAnimationLoop ==
  /\ ApplyLoop(StopAnimationLoopOp(Loop))
  /\ Did("stopAnimationLoop", "", 0)
  /\ UNCHANGED <<batchVars, scene, numOfEntitiesToProcess, conversions,
                 submissions, isDirty, opening, managers, instances, instance>>

\* the browser runs the pending callback f: animate requests the next
\* frame, then renders when the view is dirty
Animate(f) ==
  /\ f \in frames
  /\ ApplyLoop(RequestAnimationFrame([Loop EXCEPT !.frames = @ \ {f}]))
  /\ isDirty' = FALSE
  /\ Resumed("animate")
  /\ UNCHANGED <<batchVars, scene, numOfEntitiesToProcess, conversions,
                 submissions, opening, managers, instances, instance>>

\* batchConvert number i runs one iteration of its loop; an exception ends
\* it with the entities it has not reached
BatchConvert(i) ==
  /\ i \in 1..Len(conversions)
  /\ \E r \in {ConvertEntity(scene, numOfEntitiesToProcess, Head(conversions[i]))} :
       /\ scene' = r.scene
       /\ numOfEntitiesToProcess' = r.numOfEntitiesToProcess
       /\ conversions' =
            IF r.aborted \/ Tail(conversions[i]) = <<>>
            THEN Without(conversions, i)
            ELSE [conversions EXCEPT ![i] = Tail(conversions[i])]
       /\ submissions' =
            IF r.aborted \/ Tail(conversions[i]) = <<>>
            THEN Without(submissions, i)
            ELSE submissions
  /\ isDirty' = (isDirty \/ Drawn(Head(conversions[i])))
  /\ Resumed("batchConvert")
  /\ UNCHANGED <<batchVars, loopVars, opening, managers, instances, instance>>

\* openUrl / openDocument up to the await of the database open:
\* onBeforeOpenDocument clears the view
OpenBegin(kind) ==
  /\ opening.stage # "opening"
  /\ scene' = SceneClear(scene)
  /\ submissions' = Cleared(submissions)
  /\ isDirty' = TRUE
  /\ opening' = [NoOpen EXCEPT !.stage = "opening", !.kind = kind]
  /\ Did(kind, "", 0)
  /\ UNCHANGED <<batchVars, loopVars, numOfEntitiesToProcess, conversions,
                 managers, instances, instance>>

\* openUrl / openDocument from the settling of the database open to the
\* settling of the call's own promise
OpenEnd(databaseOpened, currentSpaceId) ==
  /\ opening.stage = "opening"
  /\ \E o \in {DocumentOpen(databaseOpened)} :
     \E a \in {OnAfterOpenDocument(scene, o.isSuccess, currentSpaceId)} :
       /\ scene' = a.scene
       /\ opening' = [opening EXCEPT
                        !.stage = "settled",
                        !.databaseOpened = databaseOpened,
                        !.result = IF a.status # "ok" THEN "rejected"
                                   ELSE IF o.isSuccess THEN "true" ELSE "false",
                        !.documentActivated = a.documentActivated,
                        !.failedToOpenFile = o.failedToOpenFile]
       /\ isDirty' = (isDirty \/ o.isSuccess)
  /\ Resumed(opening.kind)
  /\ UNCHANGED <<batchVars, loopVars, numOfEntitiesToProcess, conversions,
                 submissions, managers, instances, instance>>

ApplyRegistry(reg) ==
  /\ managers' = reg.managers
  /\ instances' = reg.instances
  /\ instance' = reg.instance

CreateInstance ==
  \E r \in {CreateInstanceOp(Registry)} :
      /\ Len(r.reg.managers) <= MaxManagers
      /\ ApplyRegistry(r.reg)
      /\ Did("createInstance", DefaultInstanceId, r.ret)
      /\ UNCHANGED <<batchVars, loopVars, scene, numOfEntitiesToProcess,
                     conversions, submissions, isDirty, opening>>

CreateNewInstance(instanceId, generated) ==
  \E r \in {CreateNewInstanceOp(Registry, instanceId, generated)} :
      /\ Len(r.reg.managers) <= MaxManagers
      /\ ApplyRegistry(r.reg)
      /\ Did("createNewInstance",
             IF instanceId = "" THEN generated ELSE instanceId, r.ret)
      /\ UNCHANGED <<batchVars, loopVars, scene, numOfEntitiesToProcess,
                     conversions, submissions, isDirty, opening>>

Instance ==
  \E r \in {InstanceOp(Registry)} :
      /\ Len(r.reg.managers) <= MaxManagers
      /\ ApplyRegistry(r.reg)
      /\ Did("instance", DefaultInstanceId, r.ret)
      /\ UNCHANGED <<batchVars, loopVars, scene, numOfEntitiesToProcess,
                     conversions, submissions, isDirty, opening>>

\* destroy() of a manager that has not been destroyed
Destroy(m) ==
  /\ m \in 1..Len(managers)
  /\ ~managers[m].destroyed
  /\ ApplyRegistry(DestroyOp(Registry, m))
  /\ Did("destroy", managers[m].instanceId, m)
  /\ UNCHANGED <<batchVars, loopVars, scene, numOfEntitiesToProcess,
                 conversions, submissions, isDirty, opening>>

\* ---------------------------------------------------------- specifications
\* every geometry within the bounds, short call sequences
Next ==
  \/ \E g \in NewGeometries, r \in Reservations :
       calls < MaxCalls /\ AddGeometry(g, r[1], r[2], MaxSlots)
  \/ \E h \in 0..(MaxSlots - 1), g \in Geometries :
       calls < MaxCalls /\ SetGeometryAt(h, g)
  \/ \E h \in (-1)..(MaxSlots - 1) :
       calls < MaxCalls /\ DeleteGeometry(h)
  \/ \E h \in 0..(MaxSlots - 1), v \in BOOLEAN :
       calls < MaxCalls /\ SetVisibleAt(h, v)
  \/ calls < MaxCalls /\ Optimize
  \/ \E h \in 0..(MaxSlots - 1) :
       calls < MaxCalls /\ GetBoundingBoxAt(h)

Spec == Init /\ [][Next]_vars

\* addGeometry, setGeometryAt and deleteGeometry with the bounding-box
\* accessor, on indexed polylines with any reservation
NextUpdates ==
  \/ \E g \in IndexedPolylinesOf({FALSE}), r \in Reservations :
       calls < MaxCallsUpdates /\ AddGeometry(g, r[1], r[2], MaxSlotsDeep)
  \/ \E h \in 0..(MaxSlots - 1), g \in IndexedPolylinesOf(BOOLEAN) :
       calls < MaxCallsUpdates /\ SetGeometryAt(h, g)
  \/ \E h \in 0..(MaxSlots - 1) :
       calls < MaxCallsUpdates /\ DeleteGeometry(h)
  \/ \E h \in 0..(MaxSlots - 1) :
       calls < MaxCallsUpdates /\ GetBoundingBoxAt(h)

SpecUpdates == Init /\ [][NextUpdates]_vars

\* polylines only, longer call sequences
DeepReservations == {<<-1, -1>>, <<MaxReserved, MaxReserved>>}

NextDeep ==
  \/ \E g \in PolylinesOf({FALSE}), r \in DeepReservations :
       calls < MaxCallsDeep /\ AddGeometry(g, r[1], r[2], MaxSlotsDeep)
  \/ \E h \in 0..(MaxSlotsDeep - 1), g \in PolylinesOf(BOOLEAN) :
       calls < MaxCallsDeep /\ SetGeometryAt(h, g)
  \/ \E h \in 0..(MaxSlotsDeep - 1) :
       calls < MaxCallsDeep /\ DeleteGeometry(h)
  \/ \E h \in 0..(MaxSlotsDeep - 1), v \in BOOLEAN :
       calls < MaxCallsDeep /\ SetVisibleAt(h, v)
  \/ calls < MaxCallsDeep /\ Optimize
  \/ \E h \in 0..(MaxSlotsDeep - 1) :
       calls < MaxCallsDeep /\ GetBoundingBoxAt(h)
  \/ \E p \in 1..MaxCoord :
       calls < MaxCallsDeep /\ Raycast(p)

SpecDeep == Init /\ [][NextDeep]_vars

\* a batch constructed with the default capacity, fed polylines of 4 and 6
\* vertices with default reservations; the calls are logged
DefaultVertexCount == 1000

ScenarioPolylines ==
  { [attrs |-> {<<"position", 3>>}, position |-> Polyline(k),
     hasIndex |-> ix, index |-> IF ix THEN InOrder(k) ELSE <<>>,
     boundingBox |-> NullBox] : k \in {4, 6}, ix \in BOOLEAN }

InitScenario == Constructed(DefaultVertexCount, <<>>)

NextScenario ==
  \/ \E g \in ScenarioPolylines :
       calls < MaxCallsDeep /\ AddGeometry(g, -1, -1, MaxSlots)
  \/ \E h \in 0..(MaxSlots - 1) :
       calls < MaxCallsDeep /\ DeleteGeometry(h)
  \/ calls < MaxCallsDeep /\ Optimize

SpecScenario == InitScenario /\ [][NextScenario]_vars

\* polylines with and without a color attribute, without an index or with
\* the in-order index
LifecyclePolylines ==
  { [attrs |-> a, position |-> Polyline(k),
     hasIndex |-> ix, index |-> IF ix THEN InOrder(k) ELSE <<>>,
     boundingBox |-> NullBox] :
      a \in {{<<"position", 3>>}, {<<"position", 3>>, <<"color", 3>>}},
      k \in 1..MaxGeomVertices, ix \in BOOLEAN }

\* the life cycle of one batch: regions added, rewritten, deleted and
\* packed, and the batch reset and filled again
NextLifecycle ==
  \/ \E g \in LifecyclePolylines, r \in DeepReservations :
       calls < MaxCallsLifecycle /\ AddGeometry(g, r[1], r[2], MaxSlotsDeep)
  \/ \E h \in 0..(MaxSlotsDeep - 1), g \in LifecyclePolylines :
       calls < MaxCallsLifecycle /\ SetGeometryAt(h, g)
  \/ \E h \in 0..(MaxSlotsDeep - 1) :
       calls < MaxCallsLifecycle /\ DeleteGeometry(h)
  \/ calls < MaxCallsLifecycle /\ Optimize
  \/ calls < MaxCallsLifecycle /\ Reset

SpecLifecycle == Init /\ [][NextLifecycle]_vars

\* a batch of point symbols: each region is the line of a symbol and is
\* given the position of its point; resetGeometry rebuilds the symbols for
\* another display mode
NextPoints ==
  \/ \E g \in PolylinesOf({FALSE}) :
       calls < MaxCallsDeep /\ AddGeometry(g, -1, -1, MaxSlotsDeep)
  \/ \E h \in 0..(MaxSlotsDeep - 1), p \in 1..MaxCoord :
       calls < MaxCallsDeep /\ SetGeometryInfo(h, p)
  \/ \E h \in 0..(MaxSlotsDeep - 1) :
       calls < MaxCallsDeep /\ DeleteGeometry(h)
  \/ \E hasLine \in BOOLEAN, g \in PolylinesOf({FALSE}) :
       /\ calls < MaxCallsDeep
       /\ geometryInitialized => g.hasIndex = indexed
       /\ ResetGeometry(hasLine, g, MaxSlotsDeep)

SpecPoints == Init /\ [][NextPoints]_vars

\* bulk adds of 1..MaxBatch distinct entities
Batches ==
  {b \in SeqsUpTo(Entities, 1, MaxBatch) :
     \A i \in 1..Len(b) : \A j \in 1..Len(b) :
       i # j => b[i].objectId # b[j].objectId}

\* the view and its scene under layout switches, bulk adds and document
\* opens; between OpenBegin and OpenEnd the other calls are those of the
\* handlers of the database's events
NextView ==
  \/ \E v \in LayoutIds :
       did.n < MaxViewCalls /\ ActiveLayoutBtrId(v)
  \/ \E id \in LayoutIds :
       did.n < MaxViewCalls /\ AddLayout(id)
  \/ \E b \in Batches :
       did.n < MaxViewCalls /\ AddEntity(b)
  \/ \E e \in {"e1", "e2"} :
       did.n < MaxViewCalls /\ RemoveEntity(e)
  \/ \E i \in 1..MaxViewCalls :
       BatchConvert(i)
  \/ \E kind \in {"openUrl", "openDocument"} :
       did.n < MaxViewCalls /\ OpenBegin(kind)
  \/ \E databaseOpened \in BOOLEAN, currentSpaceId \in LayoutIds :
       OpenEnd(databaseOpened, currentSpaceId)

SpecView == Init /\ [][NextView]_vars

\* timers fire and settled promises resume their awaits: a batchConvert
\* that can run an iteration eventually runs it
SpecViewFair ==
  SpecView /\ WF_vars(\E i \in 1..MaxViewCalls : BatchConvert(i))

\* the view under layout switches, layouts and entities added by the
\* database's events, clears and the conversions these schedule
NextLayouts ==
  \/ \E id \in LayoutIds, found \in BOOLEAN :
     \E b \in RecordsOf(id) :
       did.n < MaxViewCalls /\ LayoutSwitched(id, found, b)
  \/ \E id \in LayoutIds :
       did.n < MaxViewCalls /\ AddLayout(id)
  \/ \E b \in Batches :
       did.n < MaxViewCalls /\ AddEntity(b)
  \/ did.n < MaxViewCalls /\ Clear
  \/ \E i \in 1..MaxViewCalls :
       BatchConvert(i)

SpecLayouts == Init /\ [][NextLayouts]_vars

\* frame ids a model state may hold
FrameIds == 1..4

\* the animation loop of the view next to the calls that change what is to
\* be drawn
NextFrames ==
  \/ did.n < MaxFrameCalls /\ StartAnimationLoop
  \/ did.n < MaxFrameCalls /\ StopAnimationLoop
  \/ \E f \in FrameIds :
       Animate(f)
  \/ \E op \in {"highlight", "unhighlight", "onHover", "onUnhover"} :
       did.n < MaxFrameCalls /\ Highlight(op)
  \/ \E v \in LayoutIds :
       did.n < MaxFrameCalls /\ ActiveLayoutBtrId(v)
  \/ \E id \in LayoutIds :
       did.n < MaxFrameCalls /\ AddLayout(id)
  \/ \E b \in Batches :
       did.n < MaxFrameCalls /\ AddEntity(b)
  \/ \E e \in {"e1", "e2"} :
       did.n < MaxFrameCalls /\ RemoveEntity(e)
  \/ \E i \in 1..MaxFrameCalls :
       BatchConvert(i)

SpecFrames == Init /\ [][NextFrames]_vars

\* the static registry of AcApDocManager
NextManagers ==
  \/ did.n < MaxRegistryCalls /\ CreateInstance
  \/ \E id \in InstanceIds, g \in GeneratedIds :
       did.n < MaxRegistryCalls /\ CreateNewInstance(id, g)
  \/ did.n < MaxRegistryCalls /\ Instance
  \/ \E m \in 1..MaxManagers :
       did.n < MaxRegistryCalls /\ Destroy(m)

SpecManagers == Init /\ [][NextManagers]_vars

\* ------------------------------------------------------------ observations
\* [a, a + n) and [b, b + m) share no element
Disjoint(a, n, b, m) == a + n <= b \/ b + m <= a

\* the vertex data of a region, read at its offsets
RegionVertices(s, h) ==
  LET info == s.geometryInfo[h + 1]
  IN  [k \in 1..Max(info.vertexCount, 0) |-> At(s.position, info.vertexStart + k - 1)]

\* the index data of a region, read at its offsets
RegionIndices(s, h) ==
  LET info == s.geometryInfo[h + 1]
  IN  IF s.indexed
      THEN [k \in 1..Max(info.indexCount, 0) |-> At(s.index, info.indexStart + k - 1)]
      ELSE <<>>

\* ------------------------------------------------------------------ claims
\* C1: the reserved vertex ranges of any two distinct active regions are
\* disjoint, and in an indexed batch their reserved index ranges too.
C1_ReservedRangesDisjoint ==
  \A a \in ActiveIds(Cur), b \in ActiveIds(Cur) :
    a # b =>
      /\ Disjoint(geometryInfo[a + 1].vertexStart,
                  geometryInfo[a + 1].reservedVertexCount,
                  geometryInfo[b + 1].vertexStart,
                  geometryInfo[b + 1].reservedVertexCount)
      /\ indexed =>
           Disjoint(geometryInfo[a + 1].indexStart,
                    geometryInfo[a + 1].reservedIndexCount,
                    geometryInfo[b + 1].indexStart,
                    geometryInfo[b + 1].reservedIndexCount)

\* C2: for every live handle, the positions a ray test reads over the
\* handle's draw range (through the index buffer in an indexed batch) are
\* the same immediately before and immediately after optimize().
C2_RayGeometryKeptByOptimize ==
  [][last'.op = "optimize" =>
       \A h \in ActiveIds(Cur) : DrawnPositions(Cur', h) = DrawnPositions(Cur, h)]_vars

\* C3: for every live handle, getBoundingBoxAt and getVisibleAt answer the
\* same immediately before and immediately after optimize(), and optimize()
\* keeps the set of live handles.
C3_BoundsAndVisibilityKeptByOptimize ==
  [][last'.op = "optimize" =>
       /\ ActiveIds(Cur') = ActiveIds(Cur)
       /\ \A h \in ActiveIds(Cur) :
            /\ GetBoundingBoxAtOp(Cur', h).ret = GetBoundingBoxAtOp(Cur, h).ret
            /\ geometryInfo'[h + 1].visible = geometryInfo[h + 1].visible]_vars

\* C4: in an indexed batch every stored index of an active region equals the
\* region's vertexStart plus the corresponding index of the geometry last
\* supplied for it.
C4_IndicesAbsolute ==
  indexed =>
    \A h \in ActiveIds(Cur) :
      \A i \in 1..Max(geometryInfo[h + 1].indexCount, 0) :
        /\ i <= Len(supplied[h + 1].index)
        /\ At(index, geometryInfo[h + 1].indexStart + i - 1)
             = geometryInfo[h + 1].vertexStart + supplied[h + 1].index[i]

\* the handles of the deleted slots of the region table
DeletedIds(s) ==
  {h \in 0..(Len(s.geometryInfo) - 1) : ~s.geometryInfo[h + 1].active}

\* C5: addGeometry never returns a handle that is live at the time of the
\* call, and a live handle stays valid through every addGeometry,
\* setGeometryAt, setVisibleAt and optimize call and every deleteGeometry of
\* another handle.
C5_LiveHandlesStable ==
  [][last'.op \in {"addGeometry", "setGeometryAt", "setVisibleAt", "optimize",
                   "deleteGeometry"} =>
       /\ \A h \in ActiveIds(Cur) :
            \/ last'.op = "deleteGeometry" /\ last'.id = h
            \/ ValidGeometryId(Cur', h)
       /\ (last'.op = "addGeometry" /\ last'.status = "ok") =>
            /\ ~ValidGeometryId(Cur, last'.ret)
            /\ ValidGeometryId(Cur', last'.ret)]_vars

\* C5 witness: addGeometry has just reused handle 0 while handle 1 is live
C5_Witness ==
  /\ last.op = "addGeometry" /\ last.status = "ok" /\ last.ret = 0
  /\ Len(geometryInfo) >= 2
  /\ geometryInfo[2].active

\* C6: addGeometry returns the lowest deleted handle when there is one, and
\* the length of the region table otherwise.
C6_LowestDeletedHandleReused ==
  [][(last'.op = "addGeometry" /\ last'.status = "ok") =>
       IF DeletedIds(Cur) # {}
       THEN /\ last'.ret \in DeletedIds(Cur)
            /\ \A d \in DeletedIds(Cur) : last'.ret <= d
       ELSE last'.ret = Len(geometryInfo)]_vars

\* C6 witness: addGeometry has just returned handle 0 while another deleted
\* handle is still waiting in the reuse pool
C6_Witness ==
  /\ last.op = "addGeometry" /\ last.status = "ok" /\ last.ret = 0
  /\ Len(availableGeometryIds) >= 1

\* add 4 vertices, add 6 vertices, delete handle 0, add 4 vertices, optimize
ScenarioCalls ==
  << [op |-> "addGeometry", id |-> -1, size |-> 4],
     [op |-> "addGeometry", id |-> -1, size |-> 6],
     [op |-> "deleteGeometry", id |-> 0, size |-> -1],
     [op |-> "addGeometry", id |-> -1, size |-> 4],
     [op |-> "optimize", id |-> -1, size |-> -1] >>

\* the batch has been through exactly the first n calls of the scenario,
\* with geometries of the batch's schema
Played(n) ==
  /\ Len(log) = n
  /\ \A i \in 1..n :
       /\ log[i].op = ScenarioCalls[i].op
       /\ log[i].id = ScenarioCalls[i].id
       /\ log[i].size = ScenarioCalls[i].size
       /\ log[i].status # "schema"

\* the vertex storage [from, to) of a region
Storage(s, h) ==
  << s.geometryInfo[h + 1].vertexStart,
     s.geometryInfo[h + 1].vertexStart
       + s.geometryInfo[h + 1].reservedVertexCount >>

\* the scenario up to the call of optimize
ScenarioBeforeOptimize ==
  /\ Played(1) => log[1].ret = 0 /\ Storage(Cur, 0) = <<0, 4>>
  /\ Played(2) => log[2].ret = 1 /\ Storage(Cur, 1) = <<4, 10>>
  /\ Played(4) => log[4].ret = 0 /\ Storage(Cur, 0) = <<10, 14>>

\* both handles are live and name the geometries they named before
HandlesKept ==
  /\ ActiveIds(Cur) = {0, 1}
  /\ geometryInfo[1].vertexCount = 4
  /\ geometryInfo[2].vertexCount = 6

\* C7: in a batch of capacity 1000, adding 4 vertices gives handle 0 at
\* [0,4), adding 6 gives handle 1 at [4,10); after deleteGeometry(0), adding
\* 4 vertices gives handle 0 at [10,14); after optimize() the regions are
\* packed in storage order, handle 1 at [0,6) and handle 0 at [6,10), and
\* both handles keep their numbers.
C7_ScenarioPackedInStorageOrder ==
  /\ ScenarioBeforeOptimize
  /\ Played(5) =>
       /\ Storage(Cur, 1) = <<0, 6>>
       /\ Storage(Cur, 0) = <<6, 10>>
       /\ HandlesKept

\* C7 as stated: after optimize() handle 0's storage is [0,4)
C7_ScenarioHandleZeroFirst ==
  /\ ScenarioBeforeOptimize
  /\ Played(5) =>
       /\ Storage(Cur, 0) = <<0, 4>>
       /\ HandlesKept

\* C7 witness: the five calls of the scenario have been made
C7_Witness == Played(5) /\ last.op = "optimize" /\ nextVertexStart = 10

\* the call just made enlarged a shared buffer
Grew ==
  \/ RatGt(maxVertexCount', maxVertexCount)
  \/ RatGt(maxIndexCount', maxIndexCount)

\* C8: when an addGeometry call makes the shared buffers grow, the insertion
\* succeeds and the vertex and index data of every region that was live
\* before the call, read at its unchanged offsets, is the same after it.
C8_GrowthKeepsData ==
  [][(last'.op = "addGeometry" /\ Grew) =>
       /\ last'.status = "ok"
       /\ \A h \in ActiveIds(Cur) :
            /\ geometryInfo'[h + 1].vertexStart = geometryInfo[h + 1].vertexStart
            /\ geometryInfo'[h + 1].indexStart = geometryInfo[h + 1].indexStart
            /\ RegionVertices(Cur', h) = RegionVertices(Cur, h)
            /\ RegionIndices(Cur', h) = RegionIndices(Cur, h)]_vars

\* C9: after any sequence of addGeometry, setGeometryAt and deleteGeometry
\* calls, getBoundingBoxAt(h) of every live handle h is the bounding box of
\* the vertex data last supplied for h.
C9_BoundingBoxOfSuppliedData ==
  \A h \in ActiveIds(Cur) :
    GetBoundingBoxAtOp(Cur, h).ret = BoxOfSeq(supplied[h + 1].position)

\* C10: an addGeometry call that throws leaves the region table, the live
\* handles, the reuse pool, the insertion cursors and the geometry count as
\* they were before the call.
C10_FailedAddChangesNothing ==
  [][(last'.op = "addGeometry" /\ last'.status # "ok") =>
       /\ geometryInfo' = geometryInfo
       /\ ActiveIds(Cur') = ActiveIds(Cur)
       /\ availableGeometryIds' = availableGeometryIds
       /\ nextVertexStart' = nextVertexStart
       /\ nextIndexStart' = nextIndexStart
       /\ geometryCount' = geometryCount]_vars

\* C11: setGeometryAt, getBoundingBoxAt and setVisibleAt called with a handle
\* that is deleted, out of range or never allocated raise an error for the
\* handle, and leave the buffers and the region table as they were.
C11_InvalidHandleRejected ==
  [][(/\ last'.op \in {"setGeometryAt", "getBoundingBoxAt", "setVisibleAt"}
      /\ ~ValidGeometryId(Cur, last'.id)) =>
       /\ last'.status \in {"invalid-id", "max-geometry-count"}
       /\ position' = position
       /\ index' = index
       /\ geometryInfo' = geometryInfo]_vars

\* the geometry is larger than the reservation of region h
TooLarge(s, h, g) ==
  \/ Len(g.position) > s.geometryInfo[h + 1].reservedVertexCount
  \/ s.indexed /\ Len(g.index) > s.geometryInfo[h + 1].reservedIndexCount

\* C12: setGeometryAt(h, g) on a live handle with a geometry of the batch's
\* schema that is larger than h's reservation raises the capacity error and
\* writes nothing, and no setGeometryAt changes h's reservation.
C12_SetGeometryAtKeepsReservation ==
  \A h \in ActiveIds(Cur) : \A g \in Geometries :
    ValidateGeometry(Cur, g) =>
      LET r == SetGeometryAtOp(Cur, h, g) IN
      /\ TooLarge(Cur, h, g) => r.status = "not-large-enough" /\ r.s = Cur
      /\ r.s.geometryInfo[h + 1].reservedVertexCount
           = geometryInfo[h + 1].reservedVertexCount
      /\ r.s.geometryInfo[h + 1].reservedIndexCount
           = geometryInfo[h + 1].reservedIndexCount

\* C12 witness: setGeometryAt on a live handle has just raised the capacity
\* error
C12_Witness ==
  /\ last.op = "setGeometryAt" /\ last.status = "not-large-enough"
  /\ ValidGeometryId(Cur, last.id)
  /\ geometryInfo[last.id + 1].vertexCount >= 1

\* the geometry lacks an attribute of the batch, gives an attribute another
\* itemSize, or differs from the batch in having an index
SchemaMismatch(s, g) ==
  \/ \E a \in s.attributes : \A b \in g.attrs : b[1] # a[1]
  \/ \E a \in s.attributes : \E b \in g.attrs : b[1] = a[1] /\ b[2] # a[2]
  \/ g.hasIndex # s.indexed

\* C13: in an initialized batch, addGeometry (with any reservation) and
\* setGeometryAt (on any live handle) with a geometry that mismatches the
\* batch's schema raise the schema error and leave the batch as it was.
C13_SchemaMismatchRejected ==
  geometryInitialized =>
    \A g \in Geometries :
      SchemaMismatch(Cur, g) =>
        /\ \A r \in Reservations :
             AddGeometryOp(Cur, g, r[1], r[2])
               = [s |-> Cur, status |-> "schema", ret |-> -1]
        /\ \A h \in ActiveIds(Cur) :
             SetGeometryAtOp(Cur, h, g) = [s |-> Cur, status |-> "schema"]

\* C13 witness: a batch with a color attribute has just rejected a geometry
\* passed to setGeometryAt for a live handle
C13_Witness ==
  /\ last.op = "setGeometryAt" /\ last.status = "schema"
  /\ ValidGeometryId(Cur, last.id)
  /\ \E a \in attributes : a[1] = "color"

\* C14: in a batch established with a position attribute only, addGeometry
\* with a geometry that also carries a color attribute raises the schema
\* error and leaves the batch as it was.
C14_ExtraAttributeRejected ==
  (geometryInitialized /\ attributes = {<<"position", 3>>}) =>
    \A g \in NewGeometries :
      (\E b \in g.attrs : b[1] = "color") =>
        AddGeometryOp(Cur, g, -1, -1)
          = [s |-> Cur, status |-> "schema", ret |-> -1]

\* the number of times h is in the reuse pool
TimesPooled(s, h) ==
  Cardinality({i \in 1..Len(s.availableGeometryIds) :
                 s.availableGeometryIds[i] = h})

\* C15: a deleteGeometry(h) that directly follows a deleteGeometry(h) raises
\* no error and changes nothing: the batch is as the first call left it, with
\* h in the reuse pool at most once.
C15_DeleteTwiceIsDeleteOnce ==
  [][(/\ last.op = "deleteGeometry"
      /\ last'.op = "deleteGeometry"
      /\ last'.id = last.id) =>
       /\ last'.status = "ok"
       /\ Cur' = Cur
       /\ TimesPooled(Cur', last'.id) <= 1]_vars

\* C15 witness: deleteGeometry has just been called for a handle that was
\* allocated and now waits in the reuse pool, once
C15_Witness ==
  /\ last.op = "deleteGeometry"
  /\ last.id < Len(geometryInfo)
  /\ ~geometryInfo[last.id + 1].active
  /\ TimesPooled(Cur, last.id) = 1
  /\ calls >= 3

\* C16: deleteGeometry(h) for a handle outside the region table (at or above
\* its length, or below zero) raises no error and changes nothing.
C16_DeleteInvalidIsNoOp ==
  [][(/\ last'.op = "deleteGeometry"
      /\ last'.id \notin 0..(Len(geometryInfo) - 1)) =>
       /\ last'.status = "ok"
       /\ Cur' = Cur]_vars

\* C17: addGeometry with a geometry of the batch's schema and an explicit
\* reservation at least as large as the geometry succeeds, whatever room is
\* left at the tail of the buffers.
C17_ReservedSpanGrowsBuffers ==
  \A g \in NewGeometries : \A r \in Reservations :
    (/\ ValidateGeometry(InitializeGeometry(Cur, g.attrs, g.hasIndex), g)
     /\ r[1] >= Len(g.position)
     /\ g.hasIndex => r[2] >= Len(g.index)) =>
      AddGeometryOp(Cur, g, r[1], r[2]).status = "ok"

\* C18: every handle follows absent -> active+visible (addGeometry) ->
\* active+visible or active+hidden (setVisibleAt) -> inactive
\* (deleteGeometry): a new region starts active and visible, an inactive
\* handle is never visible, an inactive handle becomes active only through
\* addGeometry, an active handle becomes inactive only through its
\* deleteGeometry, visibility changes only through its setVisibleAt, and
\* setGeometryAt changes no flag.
C18_HandleLifeCycle ==
  [][/\ Len(geometryInfo') >= Len(geometryInfo)
     /\ \A h \in 0..(Len(geometryInfo') - 1) :
          LET new == geometryInfo'[h + 1] IN
          /\ ~new.active => ~new.visible
          /\ IF h >= Len(geometryInfo)
             THEN last'.op = "addGeometry" /\ new.active /\ new.visible
             ELSE LET old == geometryInfo[h + 1] IN
                  /\ (~old.active /\ new.active) =>
                       last'.op = "addGeometry" /\ new.visible
                  /\ (old.active /\ ~new.active) =>
                       last'.op = "deleteGeometry" /\ last'.id = h
                  /\ (old.active /\ new.active /\ old.visible # new.visible) =>
                       last'.op = "setVisibleAt" /\ last'.id = h
                  /\ last'.op = "setGeometryAt" =>
                       new.active = old.active /\ new.visible = old.visible]_vars

\* C18 witness: handle 0 was added and deleted, and addGeometry has just
\* reused its slot while another handle is hidden
C18_Witness ==
  /\ last.op = "addGeometry" /\ last.ret = 0 /\ calls >= 4
  /\ geometryInfo[1].active /\ geometryInfo[1].visible
  /\ \E h \in ActiveIds(Cur) : ~geometryInfo[h + 1].visible

\* the stored indices of region h, relative to its vertexStart
RebasedIndices(s, h) ==
  [k \in 1..Len(RegionIndices(s, h)) |->
     RegionIndices(s, h)[k] - s.geometryInfo[h + 1].vertexStart]

\* C19: for every live handle h of an initialized batch, extractGeometry([h])
\* returns a geometry holding h's vertices and rebased indices, and adding
\* that geometry to a fresh batch gives a region with h's bounding box.
C19_ExtractRoundTrip ==
  geometryInitialized =>
    \A h \in ActiveIds(Cur) :
      LET e == ExtractGeometryOp(Cur, <<h>>)
          added == AddGeometryOp(Fresh(InitVertexCount), e.geometry, -1, -1)
      IN  /\ e.status = "ok"
          /\ e.geometry.position = RegionVertices(Cur, h)
          /\ e.geometry.index = RebasedIndices(Cur, h)
          /\ added.status = "ok"
          /\ GetBoundingBoxAtOp(added.s, added.ret).ret
               = GetBoundingBoxAtOp(Cur, h).ret

\* C20: raycast reports intersections only for regions that are active and
\* visible at the time of the call, and reports them region by region in
\* ascending handle order.
C20_RaycastVisibleInHandleOrder ==
  [][last'.op = "raycast" =>
       LET hits == RaycastOp(Cur, last'.id).ret IN
       /\ Len(hits) = last'.ret
       /\ \A k \in 1..Len(hits) :
            /\ ValidGeometryId(Cur, hits[k].batchId)
            /\ geometryInfo[hits[k].batchId + 1].visible
       /\ \A j \in 1..Len(hits) : \A k \in j..Len(hits) :
            hits[j].batchId <= hits[k].batchId]_vars

\* C20 witness: raycast has just reported two intersections while a region
\* is hidden or deleted
C20_Witness ==
  /\ last.op = "raycast" /\ last.ret >= 2
  /\ \E h \in 0..(Len(geometryInfo) - 1) : ~geometryInfo[h + 1].visible

\* C21: in every reachable state geometryCount and mappingStats.count equal
\* the number of currently active regions.
C21_StatsCountActiveRegions ==
  /\ geometryCount = Cardinality(ActiveIds(Cur))
  /\ MappingStatsCount(Cur) = Cardinality(ActiveIds(Cur))

\* C22: between calls, vertexStart + reservedVertexCount of every active
\* region is at most the vertex capacity, and in an indexed batch
\* indexStart + reservedIndexCount is at most the index capacity.
C22_ReservedRangesWithinCapacity ==
  \A h \in ActiveIds(Cur) :
    /\ ~IntGt(geometryInfo[h + 1].vertexStart
                + geometryInfo[h + 1].reservedVertexCount, maxVertexCount)
    /\ indexed =>
         ~IntGt(geometryInfo[h + 1].indexStart
                  + geometryInfo[h + 1].reservedIndexCount, maxIndexCount)

\* the keys of the layouts in the table of the scene
LayoutKeys(sc) == {sc.layouts[i].key : i \in 1..Len(sc.layouts)}

\* the entities held by the layouts of the scene, with their layouts
EntitiesOf(sc) ==
  UNION { {<<sc.layouts[i].key, e>> : e \in sc.layouts[i].entities} :
          i \in 1..Len(sc.layouts) }

C24_EntitiesToProcessReturnsToZero ==
  (numOfEntitiesToProcess > 0) ~> (numOfEntitiesToProcess = 0)

\* the managers that were constructed and not destroyed
LiveManagers(reg) ==
  {m \in 1..Len(reg.managers) : ~reg.managers[m].destroyed}

\* C25: after every createInstance, createNewInstance, instance and destroy
\* call, no two live managers have the same instance id, the registry maps
\* the id of every live manager to it and holds nothing else, and an entry
\* for the default id is the singleton; createNewInstance with a registered
\* id returns the registered manager and constructs none.
C25_OneManagerPerInstanceId ==
  [][/\ \A a \in LiveManagers(Registry') : \A b \in LiveManagers(Registry') :
          managers'[a].instanceId = managers'[b].instanceId => a = b
     /\ \A m \in LiveManagers(Registry') :
          /\ managers'[m].instanceId \in DOMAIN instances'
          /\ instances'[managers'[m].instanceId] = m
     /\ \A k \in DOMAIN instances' :
          /\ instances'[k] \in LiveManagers(Registry')
          /\ managers'[instances'[k]].instanceId = k
     /\ DefaultInstanceId \in DOMAIN instances' =>
          instance' = instances'[DefaultInstanceId]
     /\ (did'.op = "createNewInstance" /\ did'.arg \in DOMAIN instances) =>
          /\ did'.ret = instances[did'.arg]
          /\ managers' = managers]_vars

\* C26: once an openUrl or openDocument call has settled, it has resolved to
\* true if the database open succeeded and to false if it failed, and has
\* not rejected; documentActivated was dispatched once for a successful open
\* and not at all for a failed one, and 'failed-to-open-file' was emitted
\* once for a failed open and not at all for a successful one.
C26_OpenResolvesToOutcome ==
  opening.stage = "settled" =>
    /\ opening.result = IF opening.databaseOpened THEN "true" ELSE "false"
    /\ opening.documentActivated = IF opening.databaseOpened THEN 1 ELSE 0
    /\ opening.failedToOpenFile = IF opening.databaseOpened THEN 0 ELSE 1

\* the active regions that come before h in the order of vertexStart
\* (handles break ties)
PackedBefore(s, h) ==
  {g \in ActiveIds(s) :
     \/ s.geometryInfo[g + 1].vertexStart < s.geometryInfo[h + 1].vertexStart
     \/ /\ s.geometryInfo[g + 1].vertexStart = s.geometryInfo[h + 1].vertexStart
        /\ g < h}

\* the sum of field f of the regions in ids
RECURSIVE TotalOf(_, _, _)
TotalOf(s, ids, f) ==
  IF ids = {} THEN 0
  ELSE LET g == CHOOSE x \in ids : TRUE
       IN  s.geometryInfo[g + 1][f] + TotalOf(s, ids \ {g}, f)

\* C27: after optimize() every active region, in the order of the
\* vertexStart it had before the call, occupies the vertex range of its
\* vertexCount that begins where the ranges of the regions before it end,
\* the first at offset 0, and in an indexed batch the same holds for the
\* index ranges; the insertion cursors and the draw range equal the packed
\* totals.
C27_OptimizePacksFromZero ==
  [][last'.op = "optimize" =>
       /\ \A h \in ActiveIds(Cur) :
            /\ geometryInfo'[h + 1].vertexCount >= 0
            /\ geometryInfo'[h + 1].vertexStart
                 = TotalOf(Cur', PackedBefore(Cur, h), "vertexCount")
            /\ indexed =>
                 /\ geometryInfo'[h + 1].indexCount >= 0
                 /\ geometryInfo'[h + 1].indexStart
                      = TotalOf(Cur', PackedBefore(Cur, h), "indexCount")
       /\ nextVertexStart' = TotalOf(Cur', ActiveIds(Cur), "vertexCount")
       /\ indexed => nextIndexStart' = TotalOf(Cur', ActiveIds(Cur), "indexCount")
       /\ drawRange' = IF indexed THEN <<0, nextIndexStart'>>
                       ELSE <<0, nextVertexStart'>>]_vars

\* C28: after optimize() every element of the vertex buffer at or beyond the
\* packed vertex total is zero, and every element of the index buffer at or
\* beyond the packed index total is zero.
C28_OptimizeZeroesTail ==
  [][last'.op = "optimize" =>
       /\ \A k \in 1..Len(position') :
            k - 1 >= nextVertexStart' => position'[k] = 0
       /\ indexed =>
            \A k \in 1..Len(index') :
              k - 1 >= nextIndexStart' => index'[k] = 0]_vars

\* capacity c is (old + k) * 1.5
GrownFrom(c, old, k) == 2 * c.n * old.d = 3 * (old.n + k * old.d) * c.d

\* capacities a and b are the same number
SameCapacity(a, b) == a.n * b.d = b.n * a.d

\* a batch has the capacities and the region offsets of s
KeepsCapacitiesAndOffsets(t, s) ==
  /\ SameCapacity(t.maxVertexCount, s.maxVertexCount)
  /\ SameCapacity(t.maxIndexCount, s.maxIndexCount)
  /\ \A h \in ActiveIds(s) :
       /\ t.geometryInfo[h + 1].vertexStart = s.geometryInfo[h + 1].vertexStart
       /\ t.geometryInfo[h + 1].indexStart = s.geometryInfo[h + 1].indexStart

\* C29: addGeometry with a geometry of the batch's schema makes the vertex
\* capacity (old capacity + vertex count) * 1.5 when the vertex count
\* exceeds the unused tail of the vertex buffer and keeps it otherwise, and
\* likewise the index capacity for an indexed geometry; every active region
\* keeps its offsets through the call; and deleteGeometry, setVisibleAt,
\* setGeometryAt and optimize change no capacity.
C29_GrowthPolicy ==
  /\ SameCapacity(OptimizeOp(Cur).maxVertexCount, maxVertexCount)
  /\ SameCapacity(OptimizeOp(Cur).maxIndexCount, maxIndexCount)
  /\ \A g \in PolylinesOf({FALSE}) : \A r \in Reservations :
       ValidateGeometry(InitializeGeometry(Cur, g.attrs, g.hasIndex), g) =>
         LET after == AddGeometryOp(Cur, g, r[1], r[2]).s IN
         /\ IF IntGt(Len(g.position), [n |-> maxVertexCount.n
                                              - nextVertexStart * maxVertexCount.d,
                                       d |-> maxVertexCount.d])
            THEN GrownFrom(after.maxVertexCount, maxVertexCount, Len(g.position))
            ELSE SameCapacity(after.maxVertexCount, maxVertexCount)
         /\ IF /\ g.hasIndex
               /\ IntGt(Len(g.index), [n |-> maxIndexCount.n
                                               - nextIndexStart * maxIndexCount.d,
                                       d |-> maxIndexCount.d])
            THEN GrownFrom(after.maxIndexCount, maxIndexCount, Len(g.index))
            ELSE SameCapacity(after.maxIndexCount, maxIndexCount)
         /\ ~RatGt(maxVertexCount, after.maxVertexCount)
         /\ ~RatGt(maxIndexCount, after.maxIndexCount)
         /\ \A h \in ActiveIds(Cur) :
              /\ after.geometryInfo[h + 1].vertexStart
                   = geometryInfo[h + 1].vertexStart
              /\ after.geometryInfo[h + 1].indexStart
                   = geometryInfo[h + 1].indexStart
  /\ \A h \in 0..(Len(geometryInfo) - 1) :
       /\ SameCapacity(DeleteGeometryOp(Cur, h).maxVertexCount, maxVertexCount)
       /\ SameCapacity(DeleteGeometryOp(Cur, h).maxIndexCount, maxIndexCount)
       /\ \A v \in BOOLEAN :
            KeepsCapacitiesAndOffsets(SetVisibleAtOp(Cur, h, v).s, Cur)
       /\ \A g \in PolylinesOf(BOOLEAN) :
            KeepsCapacitiesAndOffsets(SetGeometryAtOp(Cur, h, g).s, Cur)

\* C29 witness: addGeometry has just enlarged the vertex buffer of a batch
\* that holds another region, leaving the index capacity as it was
C29_Witness ==
  /\ last.op = "addGeometry" /\ last.status = "ok" /\ last.ret >= 1
  /\ RatGt(maxVertexCount, Rat(InitVertexCount))
  /\ SameCapacity(maxIndexCount, Rat(InitVertexCount * 2))
  /\ geometryInfo[1].active

\* C30: setGeometryAt(h, g) and addGeometry leave the stored vertex and index
\* data of every region that is live before the call, other than the region
\* h that setGeometryAt writes, as it was.
C30_WritesStayInTheirRegion ==
  [][last'.op \in {"setGeometryAt", "addGeometry"} =>
       \A h \in ActiveIds(Cur) :
         (last'.op = "setGeometryAt" /\ last'.id = h)
         \/ /\ RegionVertices(Cur', h) = RegionVertices(Cur, h)
            /\ RegionIndices(Cur', h) = RegionIndices(Cur, h)]_vars

\* C31: in every state reached by addGeometry, deleteGeometry, setGeometryAt,
\* optimize and reset, the reuse pool holds the handle of every inactive slot
\* of the region table exactly once and nothing else: no live handle, no
\* handle outside the table and no duplicate.
C31_PoolIsTheInactiveSlots ==
  /\ \A i \in 1..Len(availableGeometryIds) :
       availableGeometryIds[i] \in 0..(Len(geometryInfo) - 1)
  /\ \A h \in 0..(Len(geometryInfo) - 1) :
       TimesPooled(Cur, h) = IF geometryInfo[h + 1].active THEN 0 ELSE 1

\* C31 witness: two deleted handles wait in the pool next to a live region
C31_Witness ==
  /\ Len(availableGeometryIds) = 2
  /\ ActiveIds(Cur) # {}
  /\ last.op = "deleteGeometry"

\* the entities of the batchConvert calls that are scheduled or suspended
RECURSIVE PendingEntities(_)
PendingEntities(cs) ==
  IF cs = <<>> THEN 0 ELSE Len(Head(cs)) + PendingEntities(Tail(cs))

\* C32: in every interleaving of addEntity calls, layout loads and
\* batchConvert steps, the count of entities waiting for processing is the
\* number of submitted entities whose conversion is still scheduled or in
\* progress (so it is never below zero).
C32_CountIsThePendingEntities ==
  numOfEntitiesToProcess = PendingEntities(conversions)

\* the object ids of a sequence of entities
ObjectIds(entities) == {entities[i].objectId : i \in 1..Len(entities)}

\* C33: a layout switch submits for conversion no entity that an earlier
\* layout load has already submitted, also when the conversion that load
\* scheduled has not finished yet.
C33_LayoutEntitiesLoadedOnce ==
  [][(did'.op = "layoutSwitched" /\ Len(conversions') > Len(conversions)) =>
       \A i \in 1..Len(conversions) :
         submissions[i].by = "layout" =>
           ObjectIds(conversions[i])
             \cap ObjectIds(conversions'[Len(conversions')]) = {}]_vars

\* C34: at most one animation-frame callback of the view is requested at any
\* time, whatever the sequence of startAnimationLoop, stopAnimationLoop and
\* frame callbacks, and it is the one _rafId names; right after
\* stopAnimationLoop no callback is requested and _rafId is null.
C34_OneFrameScheduled ==
  /\ Cardinality(frames) <= 1
  /\ frames \subseteq {rafId}
  /\ did.op = "stopAnimationLoop" => (frames = {} /\ rafId = 0)

\* C34 witness: the loop has been stopped, started again and stopped again
C34_Witness ==
  /\ did.op = "stopAnimationLoop"
  /\ did.n = MaxFrameCalls
  /\ rafId = 0
  /\ frames = {}

\* C35: once a change has set the dirty flag of the view it stays set until
\* a frame has rendered: the flag goes from dirty to clean only in the
\* animation callback.
C35_OnlyRenderCleansTheView ==
  [][(isDirty /\ ~isDirty') => did'.op = "animate"]_vars

\* C36: after clear() of the view, no iteration of a batchConvert that an
\* addEntity call scheduled before the clear adds an entity to the scene.
C36_ClearedConversionsAddNothing ==
  [][\A i \in 1..Len(conversions) :
       (/\ BatchConvert(i)
        /\ submissions[i].by = "addEntity"
        /\ submissions[i].cleared) =>
          EntitiesOf(scene') \subseteq EntitiesOf(scene)]_vars

\* C37: in every state reached by addLayout, addEntity, layout loads and
\* clear, the layout objects that are children of the scene graph are
\* exactly the values of the scene's layout map, one per layout id: no
\* replaced layout object stays in the graph.
C37_GraphHoldsTheMappedLayouts ==
  /\ scene.detached = {}
  /\ \A i \in 1..Len(scene.layouts) : \A j \in 1..Len(scene.layouts) :
       scene.layouts[i].key = scene.layouts[j].key => i = j

\* new AcTrBatchedLine with the capacities of s
FreshLike(s) ==
  [Fresh(InitVertexCount) EXCEPT !.maxVertexCount = s.maxVertexCount,
                                 !.maxIndexCount = s.maxIndexCount]

\* C38: after reset() no handle is valid, the geometry count and both
\* insertion cursors are 0, and the next addGeometry ends as it does on a
\* newly constructed batch of the same capacity: it takes the schema from
\* its own geometry, whatever the attributes and index presence before.
C38_ResetIsLikeNew ==
  LET r == ResetOp(Cur) IN
  /\ r.geometryCount = 0
  /\ r.nextVertexStart = 0
  /\ r.nextIndexStart = 0
  /\ \A h \in 0..(MaxSlotsDeep - 1) : ~ValidGeometryId(r, h)
  /\ \A g \in LifecyclePolylines, v \in DeepReservations :
       LET afterReset == AddGeometryOp(r, g, v[1], v[2])
           onNew == AddGeometryOp(FreshLike(r), g, v[1], v[2])
       IN  /\ afterReset.status = onNew.status
           /\ afterReset.ret = onNew.ret
           /\ afterReset.s.attributes = onNew.s.attributes
           /\ afterReset.s.indexed = onNew.s.indexed

\* C39: a newly constructed batch that has copied the batch has its
\* insertion cursors and its reuse pool, so that addGeometry on the copy
\* returns the handle it returns on the source and reserves a vertex range
\* disjoint from the range of every copied live region.
C39_CopyIsEquivalent ==
  LET c == CopyOp(Fresh(InitVertexCount), Cur) IN
  /\ c.nextVertexStart = nextVertexStart
  /\ c.nextIndexStart = nextIndexStart
  /\ c.availableGeometryIds = availableGeometryIds
  /\ \A g \in PolylinesOf({FALSE}), v \in DeepReservations :
       LET onCopy == AddGeometryOp(c, g, v[1], v[2])
           onSource == AddGeometryOp(Cur, g, v[1], v[2])
       IN  /\ onCopy.ret = onSource.ret
           /\ onCopy.status = "ok" =>
                \A h \in ActiveIds(c) :
                  Disjoint(onCopy.s.geometryInfo[onCopy.ret + 1].vertexStart,
                           onCopy.s.geometryInfo[onCopy.ret + 1].reservedVertexCount,
                           c.geometryInfo[h + 1].vertexStart,
                           c.geometryInfo[h + 1].reservedVertexCount)

\* the live regions that setGeometryInfo has given a position
LivePoints(s) ==
  {h \in ActiveIds(s) : s.geometryInfo[h + 1].position # NoPosition}

\* C40: resetGeometry re-creates regions for the point geometries that were
\* live before the call only: afterwards there are at most as many active
\* regions as live point geometries before, and so no more active regions
\* than before.
C40_ResetGeometryRevivesNothing ==
  [][last'.op = "resetGeometry" =>
       /\ Cardinality(ActiveIds(Cur')) <= Cardinality(LivePoints(Cur))
       /\ Cardinality(ActiveIds(Cur')) <= Cardinality(ActiveIds(Cur))]_vars

====
